---- MODULE Spec2Model ----
(***************************************************************************)
(* The PRISM blockchain indexer (backend/src/indexer): the process         *)
(* supervisor, the WebSocket connection manager, and the ten projection    *)
(* handlers that turn MedicalRecords contract events into MongoDB writes.  *)
(*                                                                         *)
(* A handler is an async function: it runs synchronously up to its first   *)
(* await, and every await (a store operation, a chain read, a block        *)
(* lookup) is a suspension point at which other handlers may run.  One     *)
(* store operation is one atomic step of the store.                        *)
(***************************************************************************)
EXTENDS Integers, Sequences, FiniteSets, TLC

\* ------------------------------------------------------------------ bounds
\* Events the chain emits in one run.
MaxEmit == 2
\* Handler invocations suspended at the same time.
MaxInflight == 2
\* Connection attempts that fail in one run.
MaxFailures == 3

\* -------------------------------------------------------- program constants
\* setTimeout(connectWebSocket, 5000): the delay, in seconds.
RetryDelaySec == 5

VARIABLES
    store,      \* the MongoDB collections: a record of sequences of documents
    shadow,     \* the collections of the run in which no faulty event was delivered
    faultyWrote,\* collections a handler wrote to before it faulted
    chain,      \* on-chain state read by handlers: public keys, resolvable blocks
    emitted,    \* the events the chain has emitted, in order, and what became of each
    inflight,   \* suspended handler invocations: index in emitted -> invocation
    proc,       \* the Node process: [state, exitCode]
    unhandled,  \* rejected promises no one handles: a set of reasons
    log,        \* what the logger has written: a set of entries
    http,       \* httpProvider/httpContract are bound
    wss,        \* the WebSocket providers constructed so far
    timers,     \* pending setTimeout callbacks, with the seconds left
    endpoint,   \* whether the WebSocket endpoint is constructible now
    failures,   \* failed connection attempts since the last success
    ipfs,       \* the client's call of fetchFromIPFS: gateways tried, outcome
    session     \* the client's Web3Provider state

vars == <<store, shadow, faultyWrote, chain, emitted, inflight, proc, unhandled,
          log, http, wss, timers, endpoint, failures, ipfs, session>>

\* ------------------------------------------------------------- value helpers
\* An absent field of a document is the empty set, a present one a singleton.
Absent == {}
Some(x) == {x}

\* String.prototype.toLowerCase on an address held as a sequence of characters.
LowerChar(c) ==
    CASE c = "A" -> "a" [] c = "B" -> "b" [] c = "C" -> "c"
      [] c = "D" -> "d" [] c = "E" -> "e" [] c = "F" -> "f"
      [] OTHER -> c

toLowerCase(s) == [i \in DOMAIN s |-> LowerChar(s[i])]

\* new Date(Number(seconds) * 1000): a date is its epoch milliseconds.
DateOfSeconds(sec) == sec * 1000

\* recordIds.map(id => Number(id)) as the set the $in operator tests against.
NumberIds(ids) == {ids[i] : i \in DOMAIN ids}

\* --------------------------------------------------------------- the store
Collections == {"RegistrationRequest", "Hospital", "User", "Record", "AccessRequest",
                "AccessGrant"}

EmptyStore == [c \in Collections |-> <<>>]

\* A filter is given as the positions of the documents of the collection it
\* matches, an update as the document it makes of the one at each position.
\* The position of the first document that matches, 0 when none does.
FirstMatch(matched) ==
    IF matched # {}
    THEN CHOOSE i \in matched : \A j \in matched : i <= j
    ELSE 0

\* Model.findOneAndUpdate(filter, update, {upsert, new: true}): one atomic store
\* operation. doc is the returned document as a set: empty for null.
findOneAndUpdate(coll, matched, updated, upsert, inserted) ==
    LET i == FirstMatch(matched) IN
    IF i # 0
    THEN [coll |-> [coll EXCEPT ![i] = updated[i]], doc |-> {updated[i]}]
    ELSE IF upsert
         THEN [coll |-> Append(coll, inserted), doc |-> {inserted}]
         ELSE [coll |-> coll, doc |-> {}]

\* A variant of updateMany that reports the documents matched as modified.
updateMany_CountsMatched(coll, matched, updated) ==
    [coll |-> [i \in DOMAIN coll |-> IF i \in matched THEN updated[i] ELSE coll[i]],
     modifiedCount |-> Cardinality(matched)]

\* Model.updateMany(filter, update): modifiedCount counts the documents changed.
updateMany(coll, matched, updated) ==
    [coll |-> [i \in DOMAIN coll |-> IF i \in matched THEN updated[i] ELSE coll[i]],
     modifiedCount |-> Cardinality({i \in matched : updated[i] # coll[i]})]

\* Model.deleteMany(filter).
RECURSIVE deleteMany(_, _)
deleteMany(coll, matched) ==
    IF coll = <<>> THEN <<>>
    ELSE LET n == Len(coll)
             rest == deleteMany(SubSeq(coll, 1, n - 1), matched \ {n})
         IN IF n \in matched THEN rest ELSE Append(rest, coll[n])

\* ------------------------------------------------------------ the handlers
\* What a handler keeps across its awaits: hospitalName or the public key read
\* (str), the block's date (num).
NoLocals == [str |-> "", num |-> 0]

\* The number of awaits of each handler.
Awaits(name) ==
    CASE name = "HospitalVerified" -> 3
      [] name \in {"HospitalRevoked", "PublicKeySaved", "AccessGranted"} -> 2
      [] OTHER -> 1

\* What one resumption of a handler yields: the store after its pending
\* operation, the await it suspends at next (0: it has returned), its locals,
\* and what it logged.
Resumed(st, pc, loc, logged) == [store |-> st, pc |-> pc, loc |-> loc, log |-> logged]

Warn(msg, ev) == [level |-> "warn", msg |-> msg, n |-> 0, src |-> ev.name, tx |-> ev.tx]

\* A variant that creates the request where the handler upserts it.
handleRegistrationRequested_Creates(st, ev) ==
    LET doc == [requestId |-> ev.requestId, hospitalName |-> ev.hospitalName,
                requesterAddress |-> ev.requesterAddress, status |-> "pending_hospital"]
    IN Resumed([st EXCEPT !.RegistrationRequest = Append(@, doc)], 0, NoLocals, {})

handleRegistrationRequested(st, ev) ==
    LET doc == [requestId |-> ev.requestId, hospitalName |-> ev.hospitalName,
                requesterAddress |-> ev.requesterAddress, status |-> "pending_hospital"]
        c == st.RegistrationRequest
        r == findOneAndUpdate(c, {i \in DOMAIN c : c[i].requestId = ev.requestId},
                 [i \in DOMAIN c |-> doc], TRUE, doc)
    IN Resumed([st EXCEPT !.RegistrationRequest = r.coll], 0, NoLocals, {})

\* Variants of the filter: one that takes the request in any status, one that
\* takes it in the status the request event leaves it in.
VerifyingFilter_AnyStatus(d, ev) == d.requestId = ev.hospitalId

VerifyingFilter_Pending(d, ev) ==
    d.requestId = ev.hospitalId /\ d.status = "pending_hospital"

\* The filter of the status update of handleHospitalVerified.
VerifyingFilter(d, ev) == d.requestId = ev.hospitalId /\ d.status = "verifying"

\* A variant of the null branch that warns and stays suspended at the status
\* update, to try it again.
NoSuchRequest_Waits(st, ev, loc) == Resumed(st, 1, loc, {Warn("noVerifyingRequest", ev)})

\* if (!request) { logger.warn(...); return; }
NoSuchRequest(st, ev, loc) == Resumed(st, 0, loc, {Warn("noVerifyingRequest", ev)})

handleHospitalVerified(st, ev, pc, loc) ==
    CASE pc = 1 ->
           LET c == st.RegistrationRequest
               r == findOneAndUpdate(c, {i \in DOMAIN c : VerifyingFilter(c[i], ev)},
                        [i \in DOMAIN c |-> [c[i] EXCEPT !.status = "approved"]],
                        FALSE, <<>>)
           IN IF r.doc = {}
              THEN NoSuchRequest(st, ev, loc)
              ELSE Resumed([st EXCEPT !.RegistrationRequest = r.coll], 2,
                           [loc EXCEPT !.str = (CHOOSE d \in r.doc : TRUE).hospitalName],
                           {})
      [] pc = 2 ->
           LET doc == [hospitalId |-> ev.hospitalId, name |-> loc.str,
                       adminAddress |-> ev.adminAddress, isVerified |-> TRUE,
                       status |-> "active"]
               c == st.Hospital
               r == findOneAndUpdate(c, {i \in DOMAIN c : c[i].hospitalId = ev.hospitalId},
                        [i \in DOMAIN c |-> doc], TRUE, doc)
           IN Resumed([st EXCEPT !.Hospital = r.coll], 3, loc, {})
      [] OTHER ->
           LET a == toLowerCase(ev.adminAddress)
               set(d) == [d EXCEPT !.address = a, !.name = <<"Admin for ", loc.str>>,
                                   !.role = "HospitalAdmin",
                                   !.professionalStatus = "approved",
                                   !.isVerified = TRUE,
                                   !.hospitalId = Some(ev.hospitalId)]
               fresh == [address |-> a, name |-> <<"Admin for ", loc.str>>,
                         role |-> "HospitalAdmin", professionalStatus |-> "approved",
                         isVerified |-> TRUE, hospitalId |-> Some(ev.hospitalId),
                         requestedHospitalId |-> Absent, publicKey |-> Absent]
               c == st.User
               r == findOneAndUpdate(c, {i \in DOMAIN c : c[i].address = a},
                        [i \in DOMAIN c |-> set(c[i])], TRUE, fresh)
           IN Resumed([st EXCEPT !.User = r.coll], 0, loc, {})

\* A variant of the filter that takes the hospital in any status.
RevokingFilter_AnyStatus(d, ev) == d.hospitalId = ev.hospitalId

\* The filter of the status update of handleHospitalRevoked.
RevokingFilter(d, ev) == d.hospitalId = ev.hospitalId /\ d.status = "revoking"

\* A variant of the filter that takes every user attached to a hospital.
CascadeFilter_AnyHospital(d, ev) == d.hospitalId # Absent

\* The filter of the updateMany of handleHospitalRevoked.
CascadeFilter(d, ev) == d.hospitalId = Some(ev.hospitalId)

\* A variant that goes on to the cascade only when the Hospital update found
\* the hospital in status 'revoking'.
handleHospitalRevoked_Gated(st, ev, pc, loc) ==
    IF pc = 1
    THEN LET c == st.Hospital
             r == findOneAndUpdate(c, {i \in DOMAIN c : RevokingFilter(c[i], ev)},
                      [i \in DOMAIN c |->
                          [c[i] EXCEPT !.status = "revoked", !.isVerified = FALSE]],
                      FALSE, <<>>)
         IN Resumed([st EXCEPT !.Hospital = r.coll], IF r.doc = {} THEN 0 ELSE 2, loc, {})
    ELSE LET c == st.User
             r == updateMany(c, {i \in DOMAIN c : CascadeFilter(c[i], ev)},
                      [i \in DOMAIN c |-> [c[i] EXCEPT !.professionalStatus = "revoked",
                                                       !.isVerified = FALSE]])
         IN Resumed([st EXCEPT !.User = r.coll], 0, loc,
                    IF r.modifiedCount > 0
                    THEN {[level |-> "info", msg |-> "cascadingRevoke",
                           n |-> r.modifiedCount, src |-> ev.name, tx |-> ev.tx]}
                    ELSE {})

handleHospitalRevoked(st, ev, pc, loc) ==
    IF pc = 1
    THEN LET c == st.Hospital
             r == findOneAndUpdate(c, {i \in DOMAIN c : RevokingFilter(c[i], ev)},
                      [i \in DOMAIN c |->
                          [c[i] EXCEPT !.status = "revoked", !.isVerified = FALSE]],
                      FALSE, <<>>)
         IN Resumed([st EXCEPT !.Hospital = r.coll], 2, loc, {})
    ELSE LET c == st.User
             r == updateMany(c, {i \in DOMAIN c : CascadeFilter(c[i], ev)},
                      [i \in DOMAIN c |-> [c[i] EXCEPT !.professionalStatus = "revoked",
                                                       !.isVerified = FALSE]])
         IN Resumed([st EXCEPT !.User = r.coll], 0, loc,
                    IF r.modifiedCount > 0
                    THEN {[level |-> "info", msg |-> "cascadingRevoke",
                           n |-> r.modifiedCount, src |-> ev.name, tx |-> ev.tx]}
                    ELSE {})

\* A variant of the lookup without its default.
roleName_NoDefault(role) ==
    CASE role = 1 -> "Doctor" [] role = 7 -> "LabTechnician"
      [] OTHER -> "undefined"

\* roleEnumToString[Number(role)] || 'Unassigned Professional'
roleName(role) ==
    CASE role = 1 -> "Doctor" [] role = 7 -> "LabTechnician"
      [] OTHER -> "Unassigned Professional"

\* A variant of the update with upsert: true.
handleRoleAssigned_Upserts(st, ev) ==
    LET c == st.User
        fresh == [address |-> toLowerCase(ev.userAddress), name |-> <<>>,
                  role |-> roleName(ev.role), professionalStatus |-> "approved",
                  isVerified |-> TRUE, hospitalId |-> Some(ev.hospitalId),
                  requestedHospitalId |-> Absent, publicKey |-> Absent]
        r == findOneAndUpdate(c,
                 {i \in DOMAIN c : c[i].address = toLowerCase(ev.userAddress)},
                 [i \in DOMAIN c |-> [c[i] EXCEPT !.role = roleName(ev.role),
                                                  !.hospitalId = Some(ev.hospitalId),
                                                  !.professionalStatus = "approved",
                                                  !.isVerified = TRUE]],
                 TRUE, fresh)
    IN Resumed([st EXCEPT !.User = r.coll], 0, NoLocals, {})

handleRoleAssigned(st, ev) ==
    LET c == st.User
        r == findOneAndUpdate(c,
                 {i \in DOMAIN c : c[i].address = toLowerCase(ev.userAddress)},
                 [i \in DOMAIN c |-> [c[i] EXCEPT !.role = roleName(ev.role),
                                                  !.hospitalId = Some(ev.hospitalId),
                                                  !.professionalStatus = "approved",
                                                  !.isVerified = TRUE]],
                 FALSE, <<>>)
    IN Resumed([st EXCEPT !.User = r.coll], 0, NoLocals, {})

\* A variant of the reset without its $unset.
handleRoleRevoked_KeepsHospital(st, ev) ==
    LET c == st.User
        r == findOneAndUpdate(c,
                 {i \in DOMAIN c : c[i].address = toLowerCase(ev.userAddress)},
                 [i \in DOMAIN c |-> [c[i] EXCEPT !.role = "Patient",
                                                  !.professionalStatus = "revoked",
                                                  !.isVerified = FALSE]],
                 FALSE, <<>>)
    IN Resumed([st EXCEPT !.User = r.coll], 0, NoLocals, {})

handleRoleRevoked(st, ev) ==
    LET c == st.User
        r == findOneAndUpdate(c,
                 {i \in DOMAIN c : c[i].address = toLowerCase(ev.userAddress)},
                 [i \in DOMAIN c |-> [c[i] EXCEPT !.role = "Patient",
                                                  !.professionalStatus = "revoked",
                                                  !.isVerified = FALSE,
                                                  !.hospitalId = Absent,
                                                  !.requestedHospitalId = Absent]],
                 FALSE, <<>>)
    IN Resumed([st EXCEPT !.User = r.coll], 0, NoLocals, {})

\* httpContract.users(userAddress).publicKey: the chain knows no letter case.
usersOnChain(ch, userAddress) == ch.publicKey[toLowerCase(userAddress)]

\* A variant that stores the key read whether or not it is empty.
handlePublicKeySaved_StoresEmpty(st, ch, ev, pc, loc) ==
    IF pc = 1
    THEN Resumed(st, 2, [loc EXCEPT !.str = usersOnChain(ch, ev.userAddress)], {})
    ELSE LET c == st.User
             r == findOneAndUpdate(c,
                      {i \in DOMAIN c : c[i].address = toLowerCase(ev.userAddress)},
                      [i \in DOMAIN c |-> [c[i] EXCEPT !.publicKey = Some(loc.str)]],
                      FALSE, <<>>)
         IN Resumed([st EXCEPT !.User = r.coll], 0, loc, {})

handlePublicKeySaved(st, ch, ev, pc, loc) ==
    IF pc = 1
    THEN LET key == usersOnChain(ch, ev.userAddress)
         IN IF key # ""
            THEN Resumed(st, 2, [loc EXCEPT !.str = key], {})
            ELSE Resumed(st, 0, loc, {})
    ELSE LET c == st.User
             r == findOneAndUpdate(c,
                      {i \in DOMAIN c : c[i].address = toLowerCase(ev.userAddress)},
                      [i \in DOMAIN c |-> [c[i] EXCEPT !.publicKey = Some(loc.str)]],
                      FALSE, <<>>)
         IN Resumed([st EXCEPT !.User = r.coll], 0, loc, {})

\* A variant of handleRecordAdded that creates the document (Record.create)
\* where the handler upserts it.
handleRecordAdded_Creates(st, ev) ==
    LET doc == [recordId |-> ev.recordId, owner |-> toLowerCase(ev.owner),
                title |-> ev.title, ipfsHash |-> ev.ipfsHash, category |-> ev.category,
                isVerified |-> ev.isVerified, uploadedBy |-> toLowerCase(ev.verifiedBy),
                timestamp |-> DateOfSeconds(ev.timestamp)]
    IN Resumed([st EXCEPT !.Record = Append(@, doc)], 0, NoLocals, {})

handleRecordAdded(st, ev) ==
    LET doc == [recordId |-> ev.recordId, owner |-> toLowerCase(ev.owner),
                title |-> ev.title, ipfsHash |-> ev.ipfsHash, category |-> ev.category,
                isVerified |-> ev.isVerified, uploadedBy |-> toLowerCase(ev.verifiedBy),
                timestamp |-> DateOfSeconds(ev.timestamp)]
        c == st.Record
        r == findOneAndUpdate(c, {i \in DOMAIN c : c[i].recordId = ev.recordId},
                 [i \in DOMAIN c |-> doc], TRUE, doc)
    IN Resumed([st EXCEPT !.Record = r.coll], 0, NoLocals, {})

handleProfessionalAccessRequested(st, ev) ==
    LET doc == [requestId |-> ev.requestId, recordIds |-> ev.recordIds,
                professionalAddress |-> toLowerCase(ev.professional),
                patientAddress |-> toLowerCase(ev.patient), status |-> "pending"]
        c == st.AccessRequest
        r == findOneAndUpdate(c, {i \in DOMAIN c : c[i].requestId = ev.requestId},
                 [i \in DOMAIN c |-> doc], TRUE, doc)
    IN Resumed([st EXCEPT !.AccessRequest = r.coll], 0, NoLocals, {})

\* A variant that resolves the first block the chain has, whatever the event's.
getBlock_First(ch, ev) == ch.blocks[1]

\* event.getBlock(): the block as a set, empty for null.
getBlock(ch, ev) == ch.blocks[ev.block]

\* A variant of the filter that matches the grantee as the event spells it.
GrantFilter_AsSpelled(d, ev) ==
    d.recordId = ev.recordId /\ d.professionalAddress = ev.grantee

\* The filter of the upsert of handleAccessGranted.
GrantFilter(d, ev) ==
    d.recordId = ev.recordId /\ d.professionalAddress = toLowerCase(ev.grantee)

handleAccessGranted(st, ch, ev, pc, loc) ==
    IF pc = 1
    THEN LET block == getBlock(ch, ev)
         IN IF block = {}
            THEN Resumed(st, 0, loc, {Warn("noBlock", ev)})
            ELSE Resumed(st, 2,
                         [loc EXCEPT !.num = DateOfSeconds(CHOOSE t \in block : TRUE)], {})
    ELSE LET doc == [recordId |-> ev.recordId, patientAddress |-> toLowerCase(ev.owner),
                     professionalAddress |-> toLowerCase(ev.grantee),
                     expirationTimestamp |-> DateOfSeconds(ev.expiration),
                     rewrappedKey |-> ev.encryptedDek, createdAt |-> loc.num]
             c == st.AccessGrant
             r == findOneAndUpdate(c, {i \in DOMAIN c : GrantFilter(c[i], ev)},
                      [i \in DOMAIN c |-> doc], TRUE, doc)
         IN Resumed([st EXCEPT !.AccessGrant = r.coll], 0, loc, {})

\* A variant of the filter that matches the professional as the event spells it.
RevokeFilter_AsSpelled(d, ev) ==
    /\ d.professionalAddress = ev.professional
    /\ d.recordId \in NumberIds(ev.recordIds)

\* The filter of the deleteMany of handleAccessRevoked.
RevokeFilter(d, ev) ==
    /\ d.professionalAddress = toLowerCase(ev.professional)
    /\ d.recordId \in NumberIds(ev.recordIds)

handleAccessRevoked(st, ev) ==
    LET c == st.AccessGrant
    IN Resumed([st EXCEPT !.AccessGrant =
                   deleteMany(c, {i \in DOMAIN c : RevokeFilter(c[i], ev)})],
               0, NoLocals, {})

\* The event catalog in the order connectWebSocket attaches the listeners, and
\* the handler wssContract.on binds to each event.
ListenerOrder ==
    <<"RegistrationRequested", "HospitalVerified", "HospitalRevoked", "RoleAssigned",
      "RoleRevoked", "PublicKeySaved", "RecordAdded", "ProfessionalAccessRequested",
      "AccessGranted", "AccessRevoked">>

HandlerNames ==
    <<"handleRegistrationRequested", "handleHospitalVerified", "handleHospitalRevoked",
      "handleRoleAssigned", "handleRoleRevoked", "handlePublicKeySaved",
      "handleRecordAdded", "handleProfessionalAccessRequested", "handleAccessGranted",
      "handleAccessRevoked">>

Listener(k) == [event |-> ListenerOrder[k], handler |-> HandlerNames[k]]

\* A variant of the attachments with the wssContract.on of RecordAdded left out.
AllListeners_WithoutRecordAdded ==
    {Listener(k) : k \in {j \in DOMAIN ListenerOrder : ListenerOrder[j] # "RecordAdded"}}

AllListeners == {Listener(k) : k \in DOMAIN ListenerOrder}

\* One resumption of handler h on event ev, suspended at await pc.
Resume(st, ch, h, ev, pc, loc) ==
    CASE h = "handleRegistrationRequested" -> handleRegistrationRequested(st, ev)
      [] h = "handleHospitalVerified" -> handleHospitalVerified(st, ev, pc, loc)
      [] h = "handleHospitalRevoked" -> handleHospitalRevoked(st, ev, pc, loc)
      [] h = "handleRoleAssigned" -> handleRoleAssigned(st, ev)
      [] h = "handleRoleRevoked" -> handleRoleRevoked(st, ev)
      [] h = "handlePublicKeySaved" -> handlePublicKeySaved(st, ch, ev, pc, loc)
      [] h = "handleRecordAdded" -> handleRecordAdded(st, ev)
      [] h = "handleProfessionalAccessRequested" ->
             handleProfessionalAccessRequested(st, ev)
      [] h = "handleAccessGranted" -> handleAccessGranted(st, ch, ev, pc, loc)
      [] OTHER -> handleAccessRevoked(st, ev)

\* A handler run from delivery to return with nothing else in between.
RECURSIVE RunFrom(_, _, _, _, _, _)
RunFrom(st, ch, h, ev, pc, loc) ==
    IF pc = 0 THEN st
    ELSE LET r == Resume(st, ch, h, ev, pc, loc)
         IN RunFrom(r.store, ch, h, ev, r.pc, r.loc)

\* ------------------------------------------------------------- the process
\* A log line, stamped with the number of events the chain had emitted by then;
\* n is the count the line reports, if it reports one.
Entry(level, msg, src, tx) ==
    [level |-> level, msg |-> msg, n |-> 0, src |-> src, tx |-> tx, at |-> Len(emitted)]

Running == proc.state = "running"

\* catch (e) { logger.error(`Error processing ...`, { tx: event.transactionHash }) }
\* of a handler: the error is logged and goes no further.
HandlerCatch(h, ev) ==
    [log |-> {Entry("error", "errorProcessing", h, ev.tx)}, escaped |-> FALSE]

\* A variant of the rejection handler that logs and lets the process run on.
UnhandledRejection_KeepsRunning ==
    /\ Running
    /\ \E u \in unhandled :
          /\ log' = log \cup {Entry("error", "unhandledRejection", u, "")}
          /\ unhandled' = unhandled \ {u}
    /\ UNCHANGED <<ipfs, session, store, shadow, faultyWrote, chain, emitted, inflight, proc, http, wss,
                   timers, endpoint, failures>>

\* A promise is rejected somewhere in the process with no handler attached to
\* it: what process.on('unhandledRejection') is there for.
StrayRejection ==
    /\ Running
    /\ unhandled = {}
    /\ unhandled' = {"process"}
    /\ UNCHANGED <<ipfs, session, store, shadow, faultyWrote, chain, emitted, inflight, proc, log, http,
                   wss, timers, endpoint, failures>>

\* process.on('unhandledRejection'): log, then process.exit(1).
UnhandledRejection ==
    /\ Running
    /\ \E u \in unhandled :
          /\ log' = log \cup {Entry("error", "unhandledRejection", u, "")}
          /\ unhandled' = unhandled \ {u}
    /\ proc' = [state |-> "exited", exitCode |-> 1]
    /\ UNCHANGED <<ipfs, session, store, shadow, faultyWrote, chain, emitted, inflight, http, wss,
                   timers, endpoint, failures>>

\* A variant of the shutdown that lets a handler in flight run to its return
\* before the process exits.
gracefulShutdown_Drains ==
    /\ Running
    /\ log' = log \cup {Entry("info", "shuttingDown", "", "")}
    /\ proc' = [state |-> "exited", exitCode |-> 0]
    /\ store' = IF inflight = {} THEN store
                ELSE LET inv == CHOOSE i \in inflight : TRUE
                     IN RunFrom(store, chain, inv.h, inv.ev, inv.pc, inv.loc)
    /\ inflight' = {}
    /\ UNCHANGED <<ipfs, session, shadow, faultyWrote, chain, emitted, unhandled, http, wss, timers,
                   endpoint, failures>>

\* gracefulShutdown on SIGINT or SIGTERM: log, then process.exit(0).
gracefulShutdown ==
    /\ Running
    /\ log' = log \cup {Entry("info", "shuttingDown", "", "")}
    /\ proc' = [state |-> "exited", exitCode |-> 0]
    /\ UNCHANGED <<ipfs, session, store, shadow, faultyWrote, chain, emitted, inflight, unhandled,
                   http, wss, timers, endpoint, failures>>

\* ------------------------------------------------- the connection manager
RetryTimer == [cb |-> "connectWebSocket", left |-> RetryDelaySec]

\* Variants of the catch block, as a slip in it would make it: the error is
\* rethrown; the retry is scheduled with no delay; the retry is given up after
\* two failures.
ConnectCatch_Rethrows(ts, ls) ==
    [timers |-> ts, log |-> {}, listeners |-> ls, escaped |-> TRUE]

ConnectCatch_RetriesAtOnce(ts, ls) ==
    [timers |-> Append(ts, [RetryTimer EXCEPT !.left = 0]),
     log |-> {Entry("error", "wsInitFailed", "connectWebSocket", "")},
     listeners |-> {},
     escaped |-> FALSE]

ConnectCatch_GivesUp(ts, ls) ==
    [timers |-> IF failures < 2 THEN Append(ts, RetryTimer) ELSE ts,
     log |-> {Entry("error", "wsInitFailed", "connectWebSocket", "")},
     listeners |-> {},
     escaped |-> FALSE]

\* A variant of the catch block without wssContract.removeAllListeners(): the
\* listeners attached before the failure stay on the abandoned contract.
ConnectCatch_KeepsListeners(ts, ls) ==
    [timers |-> Append(ts, RetryTimer),
     log |-> {Entry("error", "wsInitFailed", "connectWebSocket", "")},
     listeners |-> ls,
     escaped |-> FALSE]

\* The catch block of connectWebSocket: log, wssContract.removeAllListeners()
\* on the listeners ls attached so far, setTimeout(connectWebSocket, 5000). ts
\* are the timers pending.
ConnectCatch(ts, ls) ==
    [timers |-> Append(ts, RetryTimer),
     log |-> {Entry("error", "wsInitFailed", "connectWebSocket", "")},
     listeners |-> {},
     escaped |-> FALSE]

\* One call of connectWebSocket. thrown is the construction that throws:
\* "provider" (new WebSocketProvider), "contract" (new Contract), "attach" (a
\* wssContract.on, after n listeners were attached), or "none".
connectWebSocket(ts, thrown, n) ==
    LET connecting == Entry("info", "wsConnecting", "connectWebSocket", "")
        attached == Entry("info", "listenersAttached", "connectWebSocket", "")
        provider(ls) == [link |-> "up", watched |-> thrown \in {"none", "attach"},
                         listeners |-> ls]
    IN IF thrown = "none"
       THEN [wss |-> Append(wss, provider(AllListeners)), timers |-> ts,
             log |-> {connecting, attached}, failures |-> 0, escaped |-> FALSE]
       ELSE LET c == ConnectCatch(ts, IF thrown = "attach"
                                      THEN {Listener(k) : k \in 1..n} ELSE {})
            IN [wss |-> IF thrown = "provider" THEN wss
                        ELSE Append(wss, provider(c.listeners)),
                timers |-> c.timers, log |-> {connecting} \cup c.log,
                failures |-> failures + 1, escaped |-> c.escaped]

\* The outcomes construction can have while the endpoint is as it is.
Outcomes ==
    IF endpoint = "ok" THEN {"none"}
    ELSE IF failures < MaxFailures THEN {"provider", "contract", "attach"} ELSE {}

\* startIndexer: bind the HTTP client, then the first connectWebSocket. The HTTP
\* binding is outside every try: when it throws, the promise of startIndexer is
\* rejected and no one awaits it.
startIndexer ==
    /\ proc.state = "starting"
    /\ proc' = [proc EXCEPT !.state = "running"]
    /\ \/ /\ unhandled' = unhandled \cup {"startIndexer"}
          /\ UNCHANGED <<ipfs, session, http, wss, timers, log, failures>>
       \/ \E thrown \in Outcomes, n \in 0..(Len(ListenerOrder) - 1) :
            LET c == connectWebSocket(timers, thrown, n) IN
            /\ http' = TRUE
            /\ wss' = c.wss
            /\ timers' = c.timers
            /\ failures' = c.failures
            /\ log' = log \cup {Entry("info", "httpProviderInitialized", "startIndexer", "")}
                          \cup c.log
            /\ unhandled' = IF c.escaped THEN unhandled \cup {"startIndexer"}
                            ELSE unhandled
    /\ UNCHANGED <<ipfs, session, store, shadow, faultyWrote, chain, emitted, inflight, endpoint>>

\* A retry timer comes due: connectWebSocket runs as its callback. An exception
\* that escaped it would be uncaught, which ends the process.
TimerFire ==
    /\ Running
    /\ \E i \in DOMAIN timers, thrown \in Outcomes, n \in 0..(Len(ListenerOrder) - 1) :
          /\ timers[i].left = 0
          /\ LET rest == SubSeq(timers, 1, i - 1) \o SubSeq(timers, i + 1, Len(timers))
                 c == connectWebSocket(rest, thrown, n)
             IN /\ wss' = c.wss
                /\ timers' = c.timers
                /\ failures' = c.failures
                /\ log' = log \cup c.log
                /\ proc' = IF c.escaped THEN [state |-> "exited", exitCode |-> 1]
                           ELSE proc
    /\ UNCHANGED <<ipfs, session, store, shadow, faultyWrote, chain, emitted, inflight, unhandled,
                   http, endpoint>>

\* A second passes.
Tick ==
    /\ Running
    /\ timers # <<>>
    /\ \A i \in DOMAIN timers : timers[i].left > 0
    /\ timers' = [i \in DOMAIN timers |-> [timers[i] EXCEPT !.left = @ - 1]]
    /\ UNCHANGED <<ipfs, session, store, shadow, faultyWrote, chain, emitted, inflight, proc,
                   unhandled, log, http, wss, endpoint, failures>>

\* A variant of the "error" handler that enters the retry loop of the catch block.
ProviderErrorHandler_Retries(ts) ==
    [timers |-> Append(ts, RetryTimer),
     log |-> {Entry("error", "wsProviderError", "wssProvider", "")}]

\* wssProvider.on("error", ...): the handler logs and does nothing else.
ProviderErrorHandler(ts) ==
    [timers |-> ts, log |-> {Entry("error", "wsProviderError", "wssProvider", "")}]

\* A variant in which the drop of the subscription's transport takes the HTTP
\* client with it, as it would were the two to share a provider.
ProviderError_UnbindsHttp ==
    /\ Running
    /\ \E i \in DOMAIN wss :
          /\ wss[i].link = "up"
          /\ wss[i].listeners # {}
          /\ wss' = [wss EXCEPT ![i].link = "down"]
          /\ LET r == ProviderErrorHandler(timers)
             IN IF wss[i].watched
                THEN timers' = r.timers /\ log' = log \cup r.log
                ELSE UNCHANGED <<ipfs, session, timers, log>>
    /\ http' = FALSE
    /\ UNCHANGED <<ipfs, session, store, shadow, faultyWrote, chain, emitted, inflight, proc,
                   unhandled, endpoint, failures>>

\* The transport of the subscription, provider i, drops; the provider signals
\* "error". (A provider left behind by a failed construction has no listener
\* of the contract: what becomes of its transport reaches no handler.)
ProviderError ==
    /\ Running
    /\ \E i \in DOMAIN wss :
          /\ wss[i].link = "up"
          /\ wss[i].listeners # {}
          /\ wss' = [wss EXCEPT ![i].link = "down"]
          /\ LET r == ProviderErrorHandler(timers)
             IN IF wss[i].watched
                THEN timers' = r.timers /\ log' = log \cup r.log
                ELSE UNCHANGED <<ipfs, session, timers, log>>
    /\ UNCHANGED <<ipfs, session, store, shadow, faultyWrote, chain, emitted, inflight, proc,
                   unhandled, http, endpoint, failures>>

\* The provider library re-establishes the transport of provider i and signals
\* "network" with the old network: wssProvider.on("network", ...) logs it.
ProviderReconnect ==
    /\ Running
    /\ \E i \in DOMAIN wss :
          /\ wss[i].link = "down"
          /\ wss' = [wss EXCEPT ![i].link = "up"]
          /\ log' = IF wss[i].watched
                    THEN log \cup {Entry("info", "wsReconnected", "wssProvider", "")}
                    ELSE log
    /\ UNCHANGED <<ipfs, session, store, shadow, faultyWrote, chain, emitted, inflight, proc,
                   unhandled, http, timers, endpoint, failures>>

\* The endpoint becomes constructible, or stops being so.
EndpointChange ==
    /\ endpoint' = IF endpoint = "ok" THEN "bad" ELSE "ok"
    /\ UNCHANGED <<ipfs, session, store, shadow, faultyWrote, chain, emitted, inflight, proc,
                   unhandled, log, http, wss, timers, failures>>

\* ------------------------------------------------------ event dispatch
\* The listeners an event of this name reaches: those of providers whose
\* transport is up, while the process runs.
Listening(name) ==
    IF Running
    THEN {l \in UNION {wss[i].listeners : i \in {j \in DOMAIN wss : wss[j].link = "up"}} :
             l.event = name}
    ELSE {}

\* The invocation a listener starts: the handler runs up to its first await.
\* faultAt is the await at which this invocation throws (0: at none, and an
\* invocation given one reaches it); the run without the faulty events (spc,
\* sloc) leaves a faulty invocation out.
Invocation(id, h, ev, faultAt) ==
    [id |-> id, h |-> h, ev |-> ev, pc |-> 1, loc |-> NoLocals, faultAt |-> faultAt,
     spc |-> IF faultAt = 0 THEN 1 ELSE 0, sloc |-> NoLocals, wrote |-> {}]

\* The chain emits ev. Every listener attached for it on a live subscription is
\* called; with none, the event is missed for good.
Emit(ev, faultAt) ==
    /\ Len(emitted) < MaxEmit
    /\ LET ls == Listening(ev.name)
           id == Len(emitted) + 1
       IN /\ ls # {} => Cardinality(inflight) < MaxInflight
          /\ emitted' = Append(emitted, [ev |-> ev, delivered |-> ls # {}])
          /\ inflight' = inflight \cup {Invocation(id, l.handler, ev, faultAt) : l \in ls}
    /\ UNCHANGED <<ipfs, session, store, shadow, faultyWrote, chain, proc, unhandled, log, http, wss,
                   timers, endpoint, failures>>

\* The pending operation of this invocation throws or is rejected: at the await
\* chosen for it, or at a chain read while httpContract is unbound.
Throws(inv) ==
    \/ inv.pc # 0 /\ inv.pc = inv.faultAt
    \/ inv.pc = 1 /\ inv.h = "handlePublicKeySaved" /\ ~http

\* The invocation after a resumption; it leaves inflight once it has returned in
\* both runs.
Suspended(invs) == {i \in invs : i.pc # 0 \/ i.spc # 0}

\* The pending operation of inv completes and the handler runs to its next await.
HandlerStep(inv) ==
    /\ Running
    /\ inv \in inflight
    /\ ~Throws(inv)
    /\ LET r == IF inv.pc # 0 THEN Resume(store, chain, inv.h, inv.ev, inv.pc, inv.loc)
                ELSE Resumed(store, 0, inv.loc, {})
           s == IF inv.spc # 0
                THEN Resume(shadow, chain, inv.h, inv.ev, inv.spc, inv.sloc)
                ELSE Resumed(shadow, 0, inv.sloc, {})
           next == [inv EXCEPT !.pc = r.pc, !.loc = r.loc, !.spc = s.pc, !.sloc = s.loc,
                               !.wrote = @ \cup {c \in Collections : r.store[c] # store[c]}]
       IN /\ inv.faultAt # 0 => r.pc # 0
          /\ store' = r.store
          /\ shadow' = s.store
          /\ log' = log \cup {[Entry(e.level, e.msg, e.src, e.tx) EXCEPT !.n = e.n] : e \in r.log}
          /\ inflight' = Suspended((inflight \ {inv}) \cup {next})
    /\ UNCHANGED <<ipfs, session, faultyWrote, chain, emitted, proc, unhandled, http, wss, timers,
                   endpoint, failures>>

\* The pending operation of inv throws: the handler's catch block runs.
HandlerFault_Retries(inv) ==
    /\ Running
    /\ inv \in inflight
    /\ Throws(inv)
    /\ log' = log \cup HandlerCatch(inv.h, inv.ev).log
    /\ inflight' = (inflight \ {inv}) \cup {Invocation(inv.id, inv.h, inv.ev, 0)}
    /\ faultyWrote' = faultyWrote \cup inv.wrote
    /\ UNCHANGED <<ipfs, session, store, shadow, chain, emitted, proc, unhandled, http, wss, timers,
                   endpoint, failures>>

HandlerFault(inv) ==
    /\ Running
    /\ inv \in inflight
    /\ Throws(inv)
    /\ LET c == HandlerCatch(inv.h, inv.ev)
       IN /\ log' = log \cup c.log
          /\ unhandled' = IF c.escaped THEN unhandled \cup {inv.h} ELSE unhandled
    /\ inflight' = inflight \ {inv}
    /\ faultyWrote' = faultyWrote \cup inv.wrote
    /\ UNCHANGED <<ipfs, session, store, shadow, chain, emitted, proc, http, wss, timers, endpoint,
                   failures>>

\* ------------------------------------------------------------ the inputs
\* Addresses as the chain hands them over (checksummed, mixed case) and as
\* another client may send them (lower case).
Alice == <<"A", "b">>
AliceLower == <<"a", "b">>
Carol == <<"C", "d">>
Patient == <<"E", "f">>

LowerAddresses == {toLowerCase(a) : a \in {Alice, AliceLower, Carol, Patient}}

\* Blocks 1 and 2 resolve, with their timestamps in seconds, block 3 does not;
\* Alice has saved a public key on the chain, no one else has.
InitChain ==
    [publicKey |-> [a \in LowerAddresses |-> IF a = AliceLower THEN "pk" ELSE ""],
     blocks |-> [b \in {1, 2, 3} |-> IF b = 3 THEN Absent ELSE Some(100 * b)]]

AccessGrantedEvents ==
    {[name |-> "AccessGranted", recordId |-> r, owner |-> Patient, grantee |-> g,
      expiration |-> t[1], encryptedDek |-> t[2], block |-> 1, tx |-> "txGrant"] :
        r \in {1, 2}, g \in {Alice, AliceLower, Carol}, t \in {<<10, "k1">>, <<20, "k2">>}}

AccessRevokedEvents ==
    {[name |-> "AccessRevoked", patient |-> Patient, professional |-> g,
      recordIds |-> ids, block |-> 2, tx |-> "txRevoke"] :
        g \in {Alice, Carol}, ids \in {<<1>>, <<1, 2>>}}

\* ------------------------------------------------------ the specifications
\* The client before it has fetched anything, and before anyone has connected.
NoFetch ==
    [outcomes |-> <<>>, next |-> 1, contacted |-> <<>>, state |-> "idle", from |-> 0,
     console |-> <<>>]

\* The state hooks of the Web3Provider as useState initialises them, with
\* whether web3auth holds a connection and the address of a call of
\* checkUserRegistrationAndState that has not resolved yet.
NoSession ==
    [account |-> Absent, contract |-> Absent, signer |-> Absent, provider |-> Absent,
     owner |-> Absent, userProfile |-> Absent, userStatus |-> "unregistered",
     isRegistered |-> FALSE, keyPair |-> Absent, needsPublicKeySetup |-> FALSE,
     idToken |-> Absent, jwtToken |-> Absent, isConfirmingKey |-> FALSE,
     isSessionLocked |-> FALSE, encryptedKeyToDecrypt |-> Absent, modalError |-> Absent,
     records |-> {}, connected |-> FALSE, checking |-> Absent]

\* The indexer process before startIndexer is called.
NotStarted ==
    /\ store = EmptyStore
    /\ shadow = EmptyStore
    /\ faultyWrote = {}
    /\ chain = InitChain
    /\ emitted = <<>>
    /\ inflight = {}
    /\ proc = [state |-> "starting", exitCode |-> 0]
    /\ unhandled = {}
    /\ log = {}
    /\ http = FALSE
    /\ wss = <<>>
    /\ timers = <<>>
    /\ endpoint \in {"ok", "bad"}
    /\ failures = 0

Init ==
    /\ NotStarted
    /\ ipfs = NoFetch
    /\ session = NoSession

\* The indexer after startIndexer has bound the HTTP client and the first
\* connectWebSocket has attached the ten listeners.
Subscribed ==
    /\ faultyWrote = {}
    /\ chain = InitChain
    /\ emitted = <<>>
    /\ inflight = {}
    /\ proc = [state |-> "running", exitCode |-> 0]
    /\ unhandled = {}
    /\ log = {Entry("info", "httpProviderInitialized", "startIndexer", ""),
              Entry("info", "wsConnecting", "connectWebSocket", ""),
              Entry("info", "listenersAttached", "connectWebSocket", "")}
    /\ http = TRUE
    /\ wss = <<[link |-> "up", watched |-> TRUE, listeners |-> AllListeners]>>
    /\ timers = <<>>
    /\ endpoint = "ok"
    /\ failures = 0
    /\ ipfs = NoFetch
    /\ session = NoSession

Resumption == \E inv \in inflight : HandlerStep(inv)

\* A grant left in the store by an earlier run of the indexer: what
\* handleAccessGranted writes for record 2 and Carol.
SeedGrant ==
    [name |-> "AccessGranted", recordId |-> 2, owner |-> Patient, grantee |-> Carol,
     expiration |-> 10, encryptedDek |-> "k1", block |-> 1, tx |-> "txSeed"]

GrantSeededStore == RunFrom(EmptyStore, InitChain, "handleAccessGranted", SeedGrant, 1, NoLocals)

InitGrant ==
    /\ Subscribed
    /\ store \in {EmptyStore, GrantSeededStore}
    /\ shadow = store

\* Access grants and revocations, delivered in any order, handlers interleaved.
EmitAccess == \E ev \in AccessGrantedEvents \cup AccessRevokedEvents : Emit(ev, 0)

NextGrant == EmitAccess \/ Resumption

SpecGrant == InitGrant /\ [][NextGrant]_vars

\* A record upload, for the runs that watch the subscription.
RecordAddedEvents ==
    {[name |-> "RecordAdded", recordId |-> 1, owner |-> Patient, title |-> "scan",
      ipfsHash |-> "Qm1", category |-> "lab", isVerified |-> TRUE, verifiedBy |-> Alice,
      timestamp |-> 50, block |-> 1, tx |-> "txRecord"]}

EmitRecord == \E ev \in RecordAddedEvents : Emit(ev, 0)

\* The handler wssContract.on binds to the event of this name.
HandlerOf(name) == HandlerNames[CHOOSE k \in DOMAIN ListenerOrder : ListenerOrder[k] = name]

\* A handler run on ev from delivery to return, with nothing else in between.
Once(st, ch, ev) == RunFrom(st, ch, HandlerOf(ev.name), ev, 1, NoLocals)

\* What the REST API of the backend does to the store before the chain events
\* the indexer waits for: a hospital registration under verification has its
\* request in status 'verifying', a hospital under revocation is 'revoking'.
ApiBeginVerification(st, id) ==
    [st EXCEPT !.RegistrationRequest =
        [i \in DOMAIN @ |-> IF @[i].requestId = id /\ @[i].status = "pending_hospital"
                            THEN [@[i] EXCEPT !.status = "verifying"] ELSE @[i]]]

ApiBeginRevocation(st, id) ==
    [st EXCEPT !.Hospital =
        [i \in DOMAIN @ |-> IF @[i].hospitalId = id /\ @[i].status = "active"
                            THEN [@[i] EXCEPT !.status = "revoking"] ELSE @[i]]]

\* One event of each of the ten types, about hospital 1, its admin Alice,
\* record 1 and its owner; and a few more that take the other branches.
RegistrationRequestedEvents ==
    {[name |-> "RegistrationRequested", requestId |-> 1, hospitalName |-> "Acme",
      requesterAddress |-> Carol, block |-> 1, tx |-> "txRequest"]}

HospitalVerifiedEvents ==
    {[name |-> "HospitalVerified", hospitalId |-> 1, adminAddress |-> Alice,
      block |-> 1, tx |-> "txVerify"]}

HospitalRevokedEvents ==
    {[name |-> "HospitalRevoked", hospitalId |-> 1, block |-> 2, tx |-> "txRevokeHospital"]}

RoleAssignedEvents ==
    {[name |-> "RoleAssigned", userAddress |-> Alice, role |-> r, hospitalId |-> 1,
      block |-> 2, tx |-> "txRole"] : r \in {1, 3}}

RoleRevokedEvents ==
    {[name |-> "RoleRevoked", userAddress |-> Alice, block |-> 2, tx |-> "txRoleRevoked"]}

PublicKeySavedEvents ==
    {[name |-> "PublicKeySaved", userAddress |-> a, block |-> 2, tx |-> "txKey"] :
        a \in {Alice, Carol}}

ProfessionalAccessRequestedEvents ==
    {[name |-> "ProfessionalAccessRequested", requestId |-> 1, recordIds |-> <<1, 2>>,
      professional |-> Alice, patient |-> Patient, block |-> 2, tx |-> "txAsk"]}

HandlerEvents ==
    RegistrationRequestedEvents \cup HospitalVerifiedEvents \cup HospitalRevokedEvents
      \cup RoleAssignedEvents \cup RoleRevokedEvents \cup PublicKeySavedEvents
      \cup RecordAddedEvents \cup ProfessionalAccessRequestedEvents
      \cup {[e EXCEPT !.block = b] :
               e \in {g \in AccessGrantedEvents :
                         g.recordId = 1 /\ g.grantee = Alice /\ g.expiration = 10},
               b \in {1, 3}}
      \cup {r \in AccessRevokedEvents : r.professional = Alice /\ r.recordIds = <<1>>}

\* The store with the registration of hospital 1 under verification.
VerifyingStore ==
    ApiBeginVerification(
        Once(EmptyStore, InitChain, CHOOSE e \in RegistrationRequestedEvents : TRUE), 1)

\* The store with hospital 1 verified, Alice its admin, and under revocation.
RevokingStore ==
    ApiBeginRevocation(
        Once(VerifyingStore, InitChain, CHOOSE e \in HospitalVerifiedEvents : TRUE), 1)

InitHandlers ==
    /\ Subscribed
    /\ store \in {EmptyStore, VerifyingStore, RevokingStore}
    /\ shadow = store

\* The chain emits an event of any type; its handler may be one that faults.
EmitAny == \E ev \in HandlerEvents : \E f \in 0..Awaits(ev.name) : Emit(ev, f)

Faulting == \E inv \in inflight : HandlerFault(inv)

\* The ten handlers on a live subscription, interleaved, some of them faulting.
NextHandlers == EmitAny \/ Resumption \/ Faulting

SpecHandlers == InitHandlers /\ [][NextHandlers]_vars

\* The documents about hospital 1 in each status the handlers read or write.
RequestWith(status) ==
    [requestId |-> 1, hospitalName |-> "Acme", requesterAddress |-> Carol,
     status |-> status]

HospitalWith(status) ==
    [hospitalId |-> 1, name |-> "Acme", adminAddress |-> Alice,
     isVerified |-> status # "revoked", status |-> status]

AdminUser ==
    [address |-> AliceLower, name |-> <<"Admin for ", "Acme">>, role |-> "HospitalAdmin",
     professionalStatus |-> "approved", isVerified |-> TRUE, hospitalId |-> Some(1),
     requestedHospitalId |-> Absent, publicKey |-> Absent]

\* The stores an event can find: the request and the hospital absent or in any
\* of their statuses, the admin registered or not.
StatusStores ==
    {[EmptyStore EXCEPT !.RegistrationRequest = rr, !.Hospital = h, !.User = u] :
        rr \in {<<>>} \cup {<<RequestWith(x)>> :
                               x \in {"pending_hospital", "verifying", "approved"}},
        h \in {<<>>} \cup {<<HospitalWith(x)>> : x \in {"active", "revoking", "revoked"}},
        u \in {<<>>, <<AdminUser>>}}

InitSeq ==
    /\ Subscribed
    /\ store \in StatusStores
    /\ shadow = store

\* A professional as RoleAssigned and the cascade leave one: attached to a
\* hospital or to none, approved or revoked.
UserWith(address, hospital, status) ==
    [address |-> address, name |-> <<"Dr ", address>>, role |-> "Doctor",
     professionalStatus |-> status, isVerified |-> status = "approved",
     hospitalId |-> hospital, requestedHospitalId |-> Absent, publicKey |-> Absent]

\* The stores a revocation of hospital 1 can find: the hospital absent or in any
\* status, two professionals each at hospital 1, at hospital 2 or at none,
\* approved or already revoked.
CascadeStores ==
    {[EmptyStore EXCEPT !.Hospital = h,
                        !.User = <<UserWith(AliceLower, ha, sa),
                                   UserWith(toLowerCase(Carol), hc, sc)>>] :
        h \in {<<>>} \cup {<<HospitalWith(x)>> : x \in {"active", "revoking", "revoked"}},
        ha \in {Some(1), Some(2), Absent}, hc \in {Some(1), Some(2), Absent},
        sa \in {"approved", "revoked"}, sc \in {"approved", "revoked"}}

InitCascade ==
    /\ Subscribed
    /\ store \in CascadeStores
    /\ shadow = store

\* Revocations of hospital 1 and role changes of Alice, one after the other.
EmitCascade ==
    /\ inflight = {}
    /\ \E ev \in HospitalRevokedEvents \cup RoleAssignedEvents \cup RoleRevokedEvents :
          Emit(ev, 0)

NextCascade == EmitCascade \/ Resumption

SpecCascade == InitCascade /\ [][NextCascade]_vars

\* The role codes the contract may send: those of the table, 0 and others.
RoleCodes == {0, 1, 2, 7, 8}

\* Role assignments at hospital 2, to Alice and to an address with no User.
RoleCodeEvents ==
    {[name |-> "RoleAssigned", userAddress |-> a, role |-> r, hospitalId |-> 2,
      block |-> 2, tx |-> "txRole"] : a \in {Alice, Patient}, r \in RoleCodes}

EmitRole ==
    /\ inflight = {}
    /\ \E ev \in RoleCodeEvents \cup RoleRevokedEvents \cup HospitalRevokedEvents :
          Emit(ev, 0)

NextRoles == EmitRole \/ Resumption

\* Role assignments and revocations on a store with two professionals.
SpecRoles == InitCascade /\ [][NextRoles]_vars

\* PublicKeySaved for Alice, whose key on chain is set, and for Carol, whose
\* key is empty; the chain read or the store write may throw.
EmitKey ==
    /\ inflight = {}
    /\ \E ev \in PublicKeySavedEvents : \E f \in 0..Awaits(ev.name) : Emit(ev, f)

NextKey == EmitKey \/ Resumption \/ Faulting

SpecKey == InitCascade /\ [][NextKey]_vars

\* The indexer on an empty store.
InitEmpty ==
    /\ Subscribed
    /\ store = EmptyStore
    /\ shadow = store

\* The chain emits an event once the handler of the one before has returned.
EmitNext == inflight = {} /\ \E ev \in HandlerEvents : Emit(ev, 0)

\* The ten handlers applied one after the other, none of them faulting.
NextSeq == EmitNext \/ Resumption

SpecSeq == InitSeq /\ [][NextSeq]_vars

\* The events whose handlers write a document under a business key.
KeyedEvents ==
    RegistrationRequestedEvents \cup HospitalVerifiedEvents \cup RoleAssignedEvents
      \cup RecordAddedEvents \cup ProfessionalAccessRequestedEvents

\* The stores with no Hospital and no User yet.
InitKeys ==
    /\ Subscribed
    /\ store \in {s \in StatusStores : s.Hospital = <<>> /\ s.User = <<>>}
    /\ shadow = store

\* The chain emits an event whatever handlers are in flight.
EmitKeyed == \E ev \in KeyedEvents : Emit(ev, 0)

NextKeys == EmitKeyed \/ Resumption

\* The upserting handlers, interleaved at their awaits.
SpecKeys == InitKeys /\ [][NextKeys]_vars

\* The chain emits an event once the handler of the one before has returned;
\* the handler may throw at one of its awaits.
EmitFaulty ==
    inflight = {} /\ \E ev \in HandlerEvents : \E f \in 0..Awaits(ev.name) : Emit(ev, f)

NextFault == EmitFaulty \/ Resumption \/ Faulting

\* The ten handlers one event at a time, some of them faulting.
SpecFault == InitKeys /\ [][NextFault]_vars

\* RecordAdded for record 1 again, with another title, hash and uploader.
RecordAddedAgainEvents ==
    {[e EXCEPT !.title = "scan2", !.ipfsHash = "Qm2", !.verifiedBy = Carol,
               !.tx = "txRecordAgain"] : e \in RecordAddedEvents}

EmitRecords ==
    /\ inflight = {}
    /\ \E ev \in HandlerEvents \cup RecordAddedAgainEvents : Emit(ev, 0)

NextRecords == EmitRecords \/ Resumption

\* The handlers one event at a time on a store that starts empty, a record
\* being announced more than once.
SpecRecords == InitEmpty /\ [][NextRecords]_vars

\* Role assignments at hospital 1, its verification and its revocation, emitted
\* whatever handlers are in flight.
EmitRace ==
    \E ev \in RoleAssignedEvents \cup HospitalVerifiedEvents \cup HospitalRevokedEvents :
       Emit(ev, 0)

NextRace == EmitRace \/ Resumption

\* The handlers that write to User, interleaved at their awaits.
SpecRace == InitCascade /\ [][NextRace]_vars

\* HospitalRevoked(1) delivered and delivered again, one at a time, either of
\* its store operations faulting or none.
EmitRevocation ==
    /\ inflight = {}
    /\ \E ev \in HospitalRevokedEvents : \E f \in 0..Awaits(ev.name) : Emit(ev, f)

NextRedeliver == EmitRevocation \/ Resumption \/ Faulting

SpecRedeliver == InitCascade /\ [][NextRedeliver]_vars

\* Role and key events for Alice and the verification that registers her as
\* an admin, one at a time, on a store with no User.
EmitLate ==
    /\ inflight = {}
    /\ \E ev \in RoleAssignedEvents \cup RoleRevokedEvents \cup PublicKeySavedEvents
                    \cup HospitalVerifiedEvents : Emit(ev, 0)

NextLate == EmitLate \/ Resumption

SpecLate == InitKeys /\ [][NextLate]_vars

NextShutdown == EmitKeyed \/ Resumption \/ gracefulShutdown

\* The subscribed indexer in a process that may be sent SIGINT or SIGTERM.
SpecShutdown == InitKeys /\ [][NextShutdown]_vars

NextSupervisor == EmitKeyed \/ Resumption \/ StrayRejection \/ UnhandledRejection

\* The subscribed indexer in a process where a promise may be rejected
\* unhandled; Node runs the rejection handler once the rejection is pending.
SpecSupervisor ==
    /\ InitEmpty
    /\ [][NextSupervisor]_vars
    /\ WF_vars(UnhandledRejection)

\* The indexer as the only writer of a store that starts empty.
SpecIndexerOnly == InitEmpty /\ [][NextSeq]_vars

\* The REST API takes the registration of hospital 1 up for verification, while
\* no handler is in flight.
BeginVerification ==
    /\ Running
    /\ inflight = {}
    /\ store' = ApiBeginVerification(store, 1)
    /\ store' # store
    /\ shadow' = store'
    /\ UNCHANGED <<ipfs, session, faultyWrote, chain, emitted, inflight, proc, unhandled, log, http,
                   wss, timers, endpoint, failures>>

NextScenario == EmitNext \/ Resumption \/ BeginVerification

\* The indexer and the REST API on a store that starts empty.
SpecScenario == InitEmpty /\ [][NextScenario]_vars

NextVerify == EmitFaulty \/ Resumption \/ Faulting \/ BeginVerification

\* The indexer, some of its handlers faulting, and the REST API on a store that
\* starts empty.
SpecVerify == InitEmpty /\ [][NextVerify]_vars

\* The supervisor and the connection manager, from the start of the process.
NextConn ==
    \/ startIndexer
    \/ TimerFire
    \/ Tick
    \/ ProviderError
    \/ ProviderReconnect
    \/ EndpointChange
    \/ UnhandledRejection
    \/ EmitRecord
    \/ Resumption

SpecConn == Init /\ [][NextConn]_vars

\* PublicKeySaved is emitted once the handler of the one before has returned.
EmitKeyRead == inflight = {} /\ \E ev \in PublicKeySavedEvents : Emit(ev, 0)

\* The connection manager with the handlers that read the chain.
NextReads ==
    \/ startIndexer
    \/ TimerFire
    \/ Tick
    \/ ProviderError
    \/ ProviderReconnect
    \/ EndpointChange
    \/ UnhandledRejection
    \/ EmitKeyRead
    \/ Resumption

SpecReads == Init /\ [][NextReads]_vars

\* ------------------------------------------------------- the client: IPFS
\* The public gateways, in the order of the list.
gateways ==
    <<"https://gateway.pinata.cloud/ipfs/", "https://cloudflare-ipfs.com/ipfs/",
      "https://ipfs.io/ipfs/", "https://dweb.link/ipfs/", "https://gateway.ipfs.io/ipfs/">>

\* What fetch(url) can do: resolve to a response that is ok, resolve to one that
\* is not, or throw.
FetchOutcomes == {"ok", "notOk", "throws"}

\* A variant of the loop body without its try/catch: a fetch that throws ends
\* the call.
AfterFetch_ThrowsOnError(f, i, outcome) ==
    LET g == [f EXCEPT !.contacted = Append(@, gateways[i])]
    IN CASE outcome = "ok" ->
              [g EXCEPT !.state = "returned", !.from = i, !.console = Append(@, "log")]
         [] outcome = "notOk" ->
              [g EXCEPT !.next = i + 1, !.console = Append(@, "warn")]
         [] OTHER -> [g EXCEPT !.state = "thrown"]

\* The body of the loop for gateway i, once fetch has settled with outcome.
AfterFetch(f, i, outcome) ==
    LET g == [f EXCEPT !.contacted = Append(@, gateways[i])]
    IN CASE outcome = "ok" ->
              [g EXCEPT !.state = "returned", !.from = i, !.console = Append(@, "log")]
         [] outcome = "notOk" ->
              [g EXCEPT !.next = i + 1, !.console = Append(@, "warn")]
         [] OTHER -> [g EXCEPT !.next = i + 1, !.console = Append(@, "error")]

\* fetchFromIPFS, one iteration of its loop: await fetch(url) of the next
\* gateway, then the body.
TryGateway ==
    /\ ipfs.state = "fetching"
    /\ ipfs.next <= Len(gateways)
    /\ ipfs' = AfterFetch(ipfs, ipfs.next, ipfs.outcomes[ipfs.next])
    /\ UNCHANGED <<store, shadow, faultyWrote, chain, emitted, inflight, proc, unhandled,
                   log, http, wss, timers, endpoint, failures, session>>

\* fetchFromIPFS after its loop: toast.error, then throw.
AllGatewaysFailed ==
    /\ ipfs.state = "fetching"
    /\ ipfs.next > Len(gateways)
    /\ ipfs' = [ipfs EXCEPT !.state = "thrown", !.console = Append(@, "toast.error")]
    /\ UNCHANGED <<store, shadow, faultyWrote, chain, emitted, inflight, proc, unhandled,
                   log, http, wss, timers, endpoint, failures, session>>

\* fetchFromIPFS is called; each gateway will answer as outcomes says.
InitIpfs ==
    /\ NotStarted
    /\ session = NoSession
    /\ \E o \in [DOMAIN gateways -> FetchOutcomes] :
          ipfs = [NoFetch EXCEPT !.outcomes = o, !.state = "fetching"]

NextIpfs == TryGateway \/ AllGatewaysFailed

SpecIpfs == InitIpfs /\ [][NextIpfs]_vars

\* ------------------------------------------------------ the client session
\* clearUserSession: the setters it calls, and localStorage.removeItem.
clearUserSession(s) ==
    [s EXCEPT !.account = Absent, !.contract = Absent, !.owner = Absent,
              !.userProfile = Absent, !.isRegistered = FALSE,
              !.userStatus = "unregistered", !.records = {}, !.signer = Absent,
              !.provider = Absent, !.keyPair = Absent, !.needsPublicKeySetup = FALSE,
              !.idToken = Absent, !.jwtToken = Absent, !.isConfirmingKey = FALSE]

\* The backup of the private key of user a that the backend returns.
EncryptedKeyOf(a) == <<"encrypted", toLowerCase(a)>>

\* What /api/users/status, the chain and localStorage answer to one call of
\* checkUserRegistrationAndState: ok is response.ok, backup whether the backend
\* has an encryptedPrivateKey, onChainKey whether users(a).publicKey is set,
\* localKey whether loadKeyPair finds a key.
StatusAnswers ==
    [ok : BOOLEAN, status : {"unregistered", "pending", "approved", "revoked"},
     role : {"Patient", "HospitalAdmin"}, backup : BOOLEAN, onChainKey : BOOLEAN,
     localKey : BOOLEAN]

\* checkUserRegistrationAndState(userAddress, ...) on the answer d.
checkUserRegistrationAndState(s, a, d) ==
    LET profile == [walletAddress |-> toLowerCase(a), role |-> d.role,
                    publicKey |-> IF d.onChainKey THEN "pk" ELSE "",
                    encryptedPrivateKey |-> IF d.backup THEN Some(EncryptedKeyOf(a))
                                            ELSE Absent]
        s1 == [s EXCEPT !.userStatus = d.status]
        s2 == [s1 EXCEPT !.isRegistered = TRUE, !.userProfile = Some(profile)]
        locked == [s2 EXCEPT !.encryptedKeyToDecrypt = profile.encryptedPrivateKey,
                             !.isSessionLocked = TRUE, !.needsPublicKeySetup = FALSE]
        loaded == IF d.localKey THEN Some(toLowerCase(a)) ELSE Absent
        fetched(t) == IF d.role = "Patient"
                      THEN [t EXCEPT !.records = {toLowerCase(a)}] ELSE t
    IN IF ~d.ok THEN s
       ELSE IF d.status = "revoked"
       THEN [s1 EXCEPT !.isRegistered = FALSE, !.userProfile = Absent]
       ELSE IF d.status = "unregistered"
       THEN [s1 EXCEPT !.isRegistered = FALSE, !.userProfile = Absent,
                       !.needsPublicKeySetup = FALSE, !.keyPair = Absent]
       ELSE IF d.status = "approved" /\ d.role \in {"Patient", "Doctor", "LabTechnician"}
       THEN IF ~d.onChainKey
            THEN IF d.backup THEN locked
                 ELSE [s2 EXCEPT !.keyPair = loaded, !.needsPublicKeySetup = TRUE]
            ELSE IF d.localKey
                 THEN fetched([s2 EXCEPT !.needsPublicKeySetup = FALSE, !.keyPair = loaded])
                 ELSE IF d.backup THEN locked
                      ELSE fetched([s2 EXCEPT !.needsPublicKeySetup = FALSE])
       ELSE [s2 EXCEPT !.keyPair = Absent, !.needsPublicKeySetup = FALSE]

\* The users who sign in at this browser.
SessionUsers == {Alice, Carol}

\* web3auth signals CONNECTED: the provider and the idToken are kept, then
\* setupUserSession sets account, signer, contract and owner and calls
\* checkUserRegistrationAndState; when the contract is not found it sets none
\* of them and logs out.
Connected ==
    /\ ~session.connected
    /\ \E a \in SessionUsers, token \in BOOLEAN, found \in BOOLEAN :
          LET s1 == [session EXCEPT !.connected = TRUE, !.provider = Some("web3auth"),
                                    !.idToken = IF token THEN Some(a) ELSE Absent,
                                    !.jwtToken = IF token THEN Some(a) ELSE Absent]
          IN session' = IF found
                        THEN [s1 EXCEPT !.account = Some(a), !.signer = Some(a),
                                        !.contract = Some(a), !.owner = Some("owner"),
                                        !.checking = Some(a)]
                        ELSE s1
    /\ UNCHANGED <<store, shadow, faultyWrote, chain, emitted, inflight, proc, unhandled,
                   log, http, wss, timers, endpoint, failures, ipfs>>

\* The call of checkUserRegistrationAndState in flight resolves.
CheckUser ==
    /\ session.checking # Absent
    /\ \E a \in session.checking, d \in StatusAnswers :
          session' = [checkUserRegistrationAndState(session, a, d)
                         EXCEPT !.checking = Absent]
    /\ UNCHANGED <<store, shadow, faultyWrote, chain, emitted, inflight, proc, unhandled,
                   log, http, wss, timers, endpoint, failures, ipfs>>

\* {isSessionLocked && <PasswordModal .../>}
PasswordModalShown(s) == s.isSessionLocked

\* handlePasswordSubmit(password), the password decrypting the backup or not.
handlePasswordSubmit(s, good) ==
    IF \/ s.encryptedKeyToDecrypt = Absent \/ s.signer = Absent
       \/ s.userProfile = Absent \/ s.account = Absent \/ s.contract = Absent
    THEN [s EXCEPT !.modalError = Some("Session is not ready")]
    ELSE IF good
         THEN LET t == [s EXCEPT !.modalError = Absent,
                                 !.keyPair = {k[2] : k \in s.encryptedKeyToDecrypt},
                                 !.isSessionLocked = FALSE,
                                 !.encryptedKeyToDecrypt = Absent]
              IN IF \E q \in s.userProfile : q.role = "Patient"
                 THEN [t EXCEPT !.records = s.account] ELSE t
         ELSE [s EXCEPT !.modalError = Some("Invalid password")]

\* The user submits a password in the modal.
SubmitPassword ==
    /\ PasswordModalShown(session)
    /\ \E good \in BOOLEAN : session' = handlePasswordSubmit(session, good)
    /\ UNCHANGED <<store, shadow, faultyWrote, chain, emitted, inflight, proc, unhandled,
                   log, http, wss, timers, endpoint, failures, ipfs>>

\* web3auth signals DISCONNECTED, after a logout: clearUserSession().
Disconnected ==
    /\ session.connected
    /\ session' = [clearUserSession(session) EXCEPT !.connected = FALSE]
    /\ UNCHANGED <<store, shadow, faultyWrote, chain, emitted, inflight, proc, unhandled,
                   log, http, wss, timers, endpoint, failures, ipfs>>

InitSession == NotStarted /\ ipfs = NoFetch /\ session = NoSession

NextSession == Connected \/ CheckUser \/ SubmitPassword \/ Disconnected

\* The session of the browser client: sign-ins, profile checks, the password
\* modal and sign-outs.
SpecSession == InitSession /\ [][NextSession]_vars

\* The connection manager alone, with the scheduling Node guarantees: startIndexer is
\* called, due timers fire, time passes, the rejection handler runs.
NextRetry ==
    \/ startIndexer
    \/ TimerFire
    \/ Tick
    \/ ProviderError
    \/ ProviderReconnect
    \/ EndpointChange
    \/ UnhandledRejection

SpecRetry ==
    /\ Init
    /\ [][NextRetry]_vars
    /\ WF_vars(startIndexer)
    /\ WF_vars(TimerFire)
    /\ WF_vars(Tick)
    /\ WF_vars(UnhandledRejection)

\* ---------------------------------------------------------------- claims
\* The collections a faulty invocation, returned or still in flight, wrote to.
WrittenByFaulty ==
    faultyWrote \cup UNION {inv.wrote : inv \in {i \in inflight : i.faultAt # 0}}

\* C1: a fault raised inside a handler is caught inside that handler: the
\* process does not exit, no unhandled rejection is produced, and what the
\* other events, in flight or later, do to the store is what they would have
\* done had the faulty event never been delivered: the collections the faulty
\* handler did not write hold what they hold in the run without it.
C1_FaultIsolation ==
    /\ proc.state = "running"
    /\ unhandled = {}
    /\ \A c \in Collections \ WrittenByFaulty : store[c] = shadow[c]

\* C3: for each of the ten event types and every store, the handler applied
\* to the same event twice in succession, the chain unchanged in between,
\* leaves the store it leaves when applied once.
C3_Idempotence ==
    \A ev \in HandlerEvents :
        Once(Once(store, chain, ev), chain, ev) = Once(store, chain, ev)

\* HospitalVerified was delivered twice in succession to a store with the
\* request under verification and nothing else; the second delivery found the
\* request approved by the first; the store is the one a single application
\* leaves, with the hospital and its admin in it.
C3_Witness ==
    /\ Len(emitted) = 2 /\ emitted[1].ev = emitted[2].ev
    /\ emitted[1].ev.name = "HospitalVerified"
    /\ inflight = {}
    /\ \E e \in log : e.msg = "noVerifyingRequest" /\ e.at = 2
    /\ store = Once([EmptyStore EXCEPT !.RegistrationRequest = <<RequestWith("verifying")>>],
                    chain, emitted[1].ev)
    /\ store.Hospital = <<HospitalWith("active")>> /\ store.User = <<AdminUser>>

Logged(msg) == \E e \in log : e.msg = msg

\* The providers that carry the contract's listeners.
Subscriptions == {i \in DOMAIN wss : wss[i].listeners # {}}

\* A step in which the transport of a subscription drops.
Drops(i) == i \in Subscriptions /\ wss[i].link = "up" /\ wss'[i].link = "down"

\* C2: no transport fault (a construction that throws, a runtime "error" of the
\* provider) leads to the exit of the process or to an unhandled rejection.
C2_TransportFaultNeverExits ==
    (failures > 0 \/ Logged("wsInitFailed") \/ Logged("wsProviderError")
       \/ \E i \in DOMAIN wss : wss[i].link = "down")
    => proc.state = "running" /\ unhandled = {}

\* Construction has failed, a later one has succeeded and its transport has
\* dropped; the process runs.
C2_Witness ==
    /\ Logged("wsInitFailed") /\ Logged("wsProviderError")
    /\ \E i \in Subscriptions : wss[i].link = "down"
    /\ proc.state = "running"

\* C4: when construction of the subscription throws, connectWebSocket logs the
\* failure and leaves exactly one connection attempt pending, due 5 seconds
\* later; the process goes on. No attempt is made before its timer is due.
C4_ConstructionFailureRetries ==
    [][/\ failures' > failures =>
             /\ timers' = <<[cb |-> "connectWebSocket", left |-> 5]>>
             /\ \E e \in log' : e.msg = "wsInitFailed" /\ e.level = "error"
             /\ proc'.state = "running"
             /\ unhandled' = unhandled
       /\ (proc.state = "running" /\ (failures' > failures \/ Len(wss') > Len(wss)))
             => \E i \in DOMAIN timers : timers[i].left = 0]_vars

\* A construction has just thrown: the retry is pending with its 5 seconds left.
C4_Witness ==
    /\ failures > 0
    /\ Logged("wsInitFailed")
    /\ timers = <<[cb |-> "connectWebSocket", left |-> 5]>>
    /\ proc.state = "running"

C6_RetriesWithoutLimit ==
    /\ [](failures > 0 => Len(timers) = 1 /\ proc.state = "running")
    /\ (<>[](endpoint = "ok")
          => <>(proc.state = "exited"
                  \/ \E i \in DOMAIN wss : wss[i].listeners = AllListeners))

\* As many attempts have failed in a row as the run allows, and one more is pending.
C6_Witness == failures = MaxFailures /\ Len(timers) = 1

Returned(id) == \A inv \in inflight : inv.id # id

\* The (recordId, lower-cased professional) pairs an emitted event is about.
PairsOf(ev) ==
    IF ev.name = "AccessGranted" THEN {<<ev.recordId, toLowerCase(ev.grantee)>>}
    ELSE IF ev.name = "AccessRevoked"
         THEN {<<r, toLowerCase(ev.professional)>> : r \in NumberIds(ev.recordIds)}
         ELSE {}

GrantsFor(st, pair) ==
    {i \in DOMAIN st.AccessGrant :
        /\ st.AccessGrant[i].recordId = pair[1]
        /\ toLowerCase(st.AccessGrant[i].professionalAddress) = pair[2]}

\* C8: in every reachable store state, whatever the order and interleaving of
\* the AccessGranted and AccessRevoked handlers, at most one AccessGrant
\* document exists per (recordId, lower-cased professionalAddress) pair.
C8_OneGrantPerPair ==
    \A i, j \in DOMAIN store.AccessGrant :
        (/\ store.AccessGrant[i].recordId = store.AccessGrant[j].recordId
         /\ toLowerCase(store.AccessGrant[i].professionalAddress)
              = toLowerCase(store.AccessGrant[j].professionalAddress)) => i = j

\* Two grants of one pair, under the two spellings of the grantee, have both been
\* written, and the pair has one document.
C8_Witness ==
    /\ Len(emitted) = 2
    /\ inflight = {}
    /\ emitted[1].ev.name = "AccessGranted" /\ emitted[2].ev.name = "AccessGranted"
    /\ emitted[1].ev.grantee = Alice /\ emitted[2].ev.grantee = AliceLower
    /\ emitted[1].ev.recordId = emitted[2].ev.recordId
    /\ Cardinality(GrantsFor(store, <<emitted[1].ev.recordId, AliceLower>>)) = 1

\* C9: AccessGranted(r, owner, g, e1, k1) followed by AccessGranted(r, owner, g,
\* e2, k2): once both handlers have returned, the one stored grant for (r, g) has
\* the expiration of e2 and the key k2.
C9_LaterGrantWins ==
    \A i, j \in DOMAIN emitted :
        (/\ i < j
         /\ emitted[i].ev.name = "AccessGranted" /\ emitted[j].ev.name = "AccessGranted"
         /\ emitted[i].delivered /\ emitted[j].delivered
         /\ PairsOf(emitted[i].ev) = PairsOf(emitted[j].ev)
         /\ \A k \in DOMAIN emitted :
               k \notin {i, j} => PairsOf(emitted[k].ev) \cap PairsOf(emitted[j].ev) = {}
         /\ Returned(i) /\ Returned(j))
        => \E pair \in PairsOf(emitted[j].ev) :
              /\ Cardinality(GrantsFor(store, pair)) = 1
              /\ \A n \in GrantsFor(store, pair) :
                    /\ store.AccessGrant[n].expirationTimestamp
                         = DateOfSeconds(emitted[j].ev.expiration)
                    /\ store.AccessGrant[n].rewrappedKey = emitted[j].ev.encryptedDek

Docs(coll) == {coll[i] : i \in DOMAIN coll}

\* C10: when the handler of AccessRevoked(p, prof, recordIds) returns, no
\* AccessGrant is left with professionalAddress = lower(prof) and recordId in
\* recordIds, every other AccessGrant is there as before, and no other
\* collection has changed.
C10_RevokeFrame ==
    [][\A inv \in inflight :
          (inv.h = "handleAccessRevoked" /\ inv \notin inflight') =>
             /\ \A d \in Docs(store'.AccessGrant) :
                   ~(/\ d.professionalAddress = toLowerCase(inv.ev.professional)
                     /\ \E k \in DOMAIN inv.ev.recordIds : d.recordId = inv.ev.recordIds[k])
             /\ \A d \in Docs(store.AccessGrant) :
                   (\/ toLowerCase(d.professionalAddress) # toLowerCase(inv.ev.professional)
                    \/ \A k \in DOMAIN inv.ev.recordIds : d.recordId # inv.ev.recordIds[k])
                   => d \in Docs(store'.AccessGrant)
             /\ Docs(store'.AccessGrant) \subseteq Docs(store.AccessGrant)
             /\ \A c \in Collections \ {"AccessGrant"} : store'[c] = store[c]]_vars

\* A revocation has removed Alice's grant on record 1 and left Carol's on record 2.
C10_Witness ==
    /\ Len(emitted) = 2
    /\ inflight = {}
    /\ emitted[1].ev.name = "AccessGranted" /\ emitted[2].ev.name = "AccessRevoked"
    /\ emitted[1].ev.grantee = Alice /\ emitted[1].ev.recordId = 1
    /\ emitted[2].ev.professional = Alice /\ emitted[2].ev.recordIds = <<1, 2>>
    /\ GrantsFor(store, <<1, AliceLower>>) = {}
    /\ GrantsFor(store, <<2, toLowerCase(Carol)>>) # {}

\* The invocation of handler h, suspended at await pc, returns in this step.
Returns(inv, h, pc) ==
    /\ inv \in inflight /\ inv.h = h /\ inv.pc = pc /\ inv.faultAt = 0
    /\ \A other \in inflight' : other.id # inv.id

\* The invocation of handler h, suspended at await pc, takes a step.
Steps(inv, h, pc) ==
    /\ inv \in inflight /\ inv.h = h /\ inv.pc = pc /\ inv.faultAt = 0
    /\ inv \notin inflight'

Revoked(d) == [d EXCEPT !.professionalStatus = "revoked", !.isVerified = FALSE]

\* C11: when handleHospitalRevoked(h) completes without fault, every User that
\* had hospitalId = h is as it was but revoked and unverified, and every other
\* User is unchanged; no User is added or removed.
C11_CascadeRevokes ==
    [][\A inv \in inflight :
          Returns(inv, "handleHospitalRevoked", 2) =>
             /\ Len(store'.User) = Len(store.User)
             /\ \A i \in DOMAIN store.User :
                   store'.User[i] = IF store.User[i].hospitalId = Some(inv.ev.hospitalId)
                                    THEN Revoked(store.User[i])
                                    ELSE store.User[i]]_vars

\* HospitalRevoked(1) has returned: Alice, who was approved at hospital 1, is
\* revoked, and Carol, approved at hospital 2, is as she was.
C11_Witness ==
    /\ Len(emitted) = 1 /\ emitted[1].ev.name = "HospitalRevoked" /\ inflight = {}
    /\ store.User = <<Revoked(UserWith(AliceLower, Some(1), "approved")),
                      UserWith(toLowerCase(Carol), Some(2), "approved")>>
    /\ \E e \in log : e.msg = "cascadingRevoke"

\* What the handler reports of its cascade in this step: the count in the line
\* it logs, 0 when it logs none.
ReportedCount(count) ==
    IF count > 0
    THEN \E e \in log' : e.msg = "cascadingRevoke" /\ e.at = Len(emitted) /\ e.n = count
    ELSE ~(\E e \in log' : e.msg = "cascadingRevoke" /\ e.at = Len(emitted))

\* C12 as claimed: the count of modified Users the cascade reports equals the
\* count of Users that had hospitalId = h before the event, also when some of
\* them were already revoked and unverified.
C12_CountsAllOfHospital ==
    [][\A inv \in inflight :
          Returns(inv, "handleHospitalRevoked", 2) =>
             ReportedCount(Cardinality({i \in DOMAIN store.User :
                 store.User[i].hospitalId = Some(inv.ev.hospitalId)}))]_vars

\* C12 as amended: the count the cascade reports equals the count of Users
\* that had hospitalId = h before the event and were not already revoked and
\* unverified.
C12_CountsNewlyRevoked ==
    [][\A inv \in inflight :
          Returns(inv, "handleHospitalRevoked", 2) =>
             ReportedCount(Cardinality({i \in DOMAIN store.User :
                 /\ store.User[i].hospitalId = Some(inv.ev.hospitalId)
                 /\ Revoked(store.User[i]) # store.User[i]}))]_vars

\* HospitalRevoked(1) has returned with both professionals at hospital 1, Carol
\* revoked before it: the cascade has reported one.
C12_Witness ==
    /\ Len(emitted) = 1 /\ emitted[1].ev.name = "HospitalRevoked" /\ inflight = {}
    /\ \A i \in DOMAIN store.User :
          store.User[i].hospitalId = Some(1) /\ store.User[i].professionalStatus = "revoked"
    /\ \E e \in log : e.msg = "cascadingRevoke" /\ e.n = 1 /\ e.at = 1
    /\ ~(\E e \in log : e.msg = "cascadingRevoke" /\ e.n = 2)

\* C16 as claimed: after HospitalRevoked(h) is processed without fault for an
\* existing Hospital h, whatever its status, Hospital h is revoked and unverified.
C16_RevokedWhateverStatus ==
    [][\A inv \in inflight :
          Returns(inv, "handleHospitalRevoked", 2) =>
             \A i \in DOMAIN store'.Hospital :
                store'.Hospital[i].hospitalId = inv.ev.hospitalId =>
                   /\ store'.Hospital[i].status = "revoked"
                   /\ ~store'.Hospital[i].isVerified]_vars

\* C16 as amended: HospitalRevoked(h) makes a Hospital h in status revoking
\* revoked and unverified, and leaves a Hospital in any other status as it is.
C16_RevokedFromRevoking ==
    [][\A inv \in inflight :
          /\ Steps(inv, "handleHospitalRevoked", 1) =>
                /\ Len(store'.Hospital) = Len(store.Hospital)
                /\ \A i \in DOMAIN store.Hospital :
                      store'.Hospital[i] =
                         IF /\ store.Hospital[i].hospitalId = inv.ev.hospitalId
                            /\ store.Hospital[i].status = "revoking"
                         THEN [store.Hospital[i] EXCEPT !.status = "revoked",
                                                        !.isVerified = FALSE]
                         ELSE store.Hospital[i]
          /\ Steps(inv, "handleHospitalRevoked", 2) => store'.Hospital = store.Hospital]_vars

\* HospitalRevoked(1) has returned and the hospital, active before it, is active;
\* its professionals are revoked.
C16_Witness ==
    /\ Len(emitted) = 1 /\ emitted[1].ev.name = "HospitalRevoked" /\ inflight = {}
    /\ store.Hospital = <<HospitalWith("active")>>
    /\ \E e \in log : e.msg = "cascadingRevoke" /\ e.n = 2

\* C13: HospitalVerified(h, admin) delivered when no RegistrationRequest with
\* requestId = h and status = verifying exists returns at once, leaves every
\* collection unchanged and logs a warning with the transaction, nothing else.
C13_NoVerifyingRequestNoOp ==
    [][\A inv \in inflight :
          (/\ Steps(inv, "handleHospitalVerified", 1)
           /\ ~(\E i \in DOMAIN store.RegistrationRequest :
                   /\ store.RegistrationRequest[i].requestId = inv.ev.hospitalId
                   /\ store.RegistrationRequest[i].status = "verifying"))
          => /\ store' = store
             /\ \A other \in inflight' : other.id # inv.id
             /\ \E e \in log' : /\ e.level = "warn" /\ e.tx = inv.ev.tx
                                /\ e.at = Len(emitted)
             /\ \A e \in log' \ log : e.level = "warn"]_vars

\* HospitalVerified(1) was delivered to a store whose request 1 is pending, not
\* under verification: it has returned with a warning and the store is as it was.
C13_Witness ==
    /\ Len(emitted) = 1 /\ emitted[1].ev.name = "HospitalVerified" /\ inflight = {}
    /\ store = [EmptyStore EXCEPT !.RegistrationRequest = <<RequestWith("pending_hospital")>>]
    /\ \E e \in log : e.level = "warn" /\ e.msg = "noVerifyingRequest" /\ e.at = 1

\* Whether s has an upper-case character.
IsLower(s) == toLowerCase(s) = s

\* C14: RegistrationRequested(id, name, requester) yields the request with
\* requestId, hospitalName and status pending_hospital (verifying once the API
\* has taken it up); then, with the request in status verifying,
\* HospitalVerified(id, admin) yields the request approved, the Hospital with
\* adminAddress lower(admin), verified and active, and the HospitalAdmin User
\* with address lower(admin).
C14_Scenario ==
    LET rr == store.RegistrationRequest
        first == Len(emitted) >= 1 /\ emitted[1].ev.name = "RegistrationRequested"
        id == emitted[1].ev.requestId
    IN /\ (first /\ Len(emitted) = 1 /\ inflight = {}) =>
             /\ Len(rr) = 1 /\ rr[1].requestId = id
             /\ rr[1].hospitalName = emitted[1].ev.hospitalName
             /\ rr[1].status \in {"pending_hospital", "verifying"}
       /\ (/\ first /\ Len(emitted) = 2 /\ inflight = {}
           /\ emitted[2].ev.name = "HospitalVerified" /\ emitted[2].ev.hospitalId = id
           /\ ~(\E e \in log : e.msg = "noVerifyingRequest")) =>
             LET admin == toLowerCase(emitted[2].ev.adminAddress) IN
             /\ Len(rr) = 1 /\ rr[1].status = "approved"
             /\ store.Hospital = <<[hospitalId |-> id, name |-> emitted[1].ev.hospitalName,
                                    adminAddress |-> admin, isVerified |-> TRUE,
                                    status |-> "active"]>>
             /\ Len(store.User) = 1
             /\ store.User[1].address = admin /\ store.User[1].role = "HospitalAdmin"
             /\ store.User[1].isVerified /\ store.User[1].hospitalId = Some(id)

\* C15 as claimed: with the indexer as the only writer of the store,
\* RegistrationRequested(id, ...) followed by HospitalVerified(id, admin) ends
\* with the request in status approved and the Hospital id present.
C15_AdvancesToApproved ==
    (/\ Len(emitted) = 2 /\ inflight = {}
     /\ emitted[1].ev.name = "RegistrationRequested"
     /\ emitted[2].ev.name = "HospitalVerified"
     /\ emitted[2].ev.hospitalId = emitted[1].ev.requestId)
    => /\ \E i \in DOMAIN store.RegistrationRequest :
             /\ store.RegistrationRequest[i].requestId = emitted[1].ev.requestId
             /\ store.RegistrationRequest[i].status = "approved"
       /\ \E i \in DOMAIN store.Hospital :
             store.Hospital[i].hospitalId = emitted[1].ev.requestId

\* C15 as amended: with the indexer as the only writer of the store, a
\* RegistrationRequest is created by the request event in status
\* pending_hospital and no event advances it: every request stays
\* pending_hospital, no Hospital and no User is ever created, and
\* RegistrationRequested(id, ...) followed by HospitalVerified(id, admin) ends
\* with the request pending_hospital and a warning logged.
C15_StaysPending ==
    /\ \A i \in DOMAIN store.RegistrationRequest :
          store.RegistrationRequest[i].status = "pending_hospital"
    /\ store.Hospital = <<>> /\ store.User = <<>>
    /\ (/\ Len(emitted) = 2 /\ inflight = {}
        /\ emitted[1].ev.name = "RegistrationRequested"
        /\ emitted[2].ev.name = "HospitalVerified")
       => /\ Len(store.RegistrationRequest) = 1
          /\ \E e \in log : e.msg = "noVerifyingRequest" /\ e.at = 2

\* RegistrationRequested(1) and then HospitalVerified(1) have been processed:
\* the request is there, pending.
C15_Witness ==
    /\ Len(emitted) = 2 /\ inflight = {}
    /\ emitted[1].ev.name = "RegistrationRequested"
    /\ emitted[2].ev.name = "HospitalVerified"
    /\ Len(store.RegistrationRequest) = 1
    /\ store.RegistrationRequest[1].status = "pending_hospital"
    /\ \E e \in log : e.msg = "noVerifyingRequest" /\ e.at = 2

\* C17: in every reachable store, every address-valued field is lower-cased.
C17_AddressesLowerCased ==
    /\ \A i \in DOMAIN store.RegistrationRequest :
          IsLower(store.RegistrationRequest[i].requesterAddress)
    /\ \A i \in DOMAIN store.Hospital : IsLower(store.Hospital[i].adminAddress)
    /\ \A i \in DOMAIN store.User : IsLower(store.User[i].address)
    /\ \A i \in DOMAIN store.Record :
          IsLower(store.Record[i].owner) /\ IsLower(store.Record[i].uploadedBy)
    /\ \A i \in DOMAIN store.AccessRequest :
          /\ IsLower(store.AccessRequest[i].professionalAddress)
          /\ IsLower(store.AccessRequest[i].patientAddress)
    /\ \A i \in DOMAIN store.AccessGrant :
          /\ IsLower(store.AccessGrant[i].professionalAddress)
          /\ IsLower(store.AccessGrant[i].patientAddress)

\* C19: once a RegistrationRequest is approved or revoked, no event the indexer
\* processes changes its status.
C19_StatusNeverRegresses ==
    [][\A i \in DOMAIN store.RegistrationRequest :
          store.RegistrationRequest[i].status \in {"approved", "revoked"} =>
             /\ i \in DOMAIN store'.RegistrationRequest
             /\ store'.RegistrationRequest[i].status = store.RegistrationRequest[i].status]_vars

\* Whether no two documents of the collection have the same key.
OnePerKey(coll, key) ==
    \A i, j \in DOMAIN coll : key[i] = key[j] => i = j

\* C18: after any interleaving of handler invocations, every collection holds
\* at most one document per business key: requestId for RegistrationRequest and
\* AccessRequest, hospitalId for Hospital, the lower-cased address for User,
\* recordId for Record.
C18_OneDocumentPerKey ==
    /\ OnePerKey(store.RegistrationRequest,
                 [i \in DOMAIN store.RegistrationRequest |-> store.RegistrationRequest[i].requestId])
    /\ OnePerKey(store.AccessRequest,
                 [i \in DOMAIN store.AccessRequest |-> store.AccessRequest[i].requestId])
    /\ OnePerKey(store.Hospital, [i \in DOMAIN store.Hospital |-> store.Hospital[i].hospitalId])
    /\ OnePerKey(store.User, [i \in DOMAIN store.User |-> toLowerCase(store.User[i].address)])
    /\ OnePerKey(store.Record, [i \in DOMAIN store.Record |-> store.Record[i].recordId])

\* RegistrationRequested(1) was emitted after HospitalVerified(1) and has
\* written between the first and the second store operation of
\* handleHospitalVerified, which is still in flight: request 1 is there once.
C18_Witness ==
    /\ Len(emitted) = 2 /\ Cardinality(inflight) = 1
    /\ emitted[1].ev.name = "HospitalVerified"
    /\ emitted[2].ev.name = "RegistrationRequested"
    /\ \E inv \in inflight : inv.h = "handleHospitalVerified" /\ inv.pc = 2
    /\ Len(store.RegistrationRequest) = 1
    /\ store.RegistrationRequest[1].status = "pending_hospital"

\* C20: an unhandled rejection is fatal. The step that takes it up logs it and
\* exits the process with code 1; a pending rejection leads to that exit; and
\* once the process has exited no event is delivered or processed: the store,
\* the invocations and the log stay as they are and an event the chain emits
\* reaches no listener.
C20_RejectionIsFatal ==
    /\ [][(unhandled' # unhandled /\ unhandled' \subseteq unhandled) =>
             /\ \E e \in log' : e.level = "error" /\ e.msg = "unhandledRejection"
             /\ proc' = [state |-> "exited", exitCode |-> 1]]_vars
    /\ [][proc.state = "exited" =>
             /\ proc' = proc /\ store' = store /\ inflight' = inflight /\ log' = log
             /\ \A i \in DOMAIN emitted' : i > Len(emitted) => ~emitted'[i].delivered]_vars
    /\ (unhandled # {}) ~> (proc.state = "exited" /\ proc.exitCode = 1)

\* RegistrationRequested was processed, then a rejection went unhandled: the
\* process has logged it and exited with code 1; the RecordAdded emitted since
\* was not delivered and left no Record.
C20_Witness ==
    /\ proc = [state |-> "exited", exitCode |-> 1]
    /\ \E e \in log : e.level = "error" /\ e.msg = "unhandledRejection"
    /\ Len(emitted) = 2 /\ inflight = {}
    /\ emitted[1].ev.name = "RegistrationRequested" /\ emitted[1].delivered
    /\ emitted[2].ev.name = "RecordAdded" /\ ~emitted[2].delivered
    /\ Len(store.RegistrationRequest) = 1 /\ store.Record = <<>>

\* C21: on SIGINT or SIGTERM the process logs the shutdown line and exits with
\* code 0, and the handlers in flight are abandoned where they are: the exit
\* itself writes nothing and completes no handler, and after it the store, the
\* invocations and the log stay as they are.
C21_ShutdownAbandons ==
    /\ [][(proc.state = "running" /\ proc'.state = "exited") =>
             /\ proc'.exitCode = 0
             /\ \E e \in log' : /\ e.level = "info" /\ e.msg = "shuttingDown"
                                /\ e.at = Len(emitted)
             /\ store' = store /\ inflight' = inflight]_vars
    /\ [][proc.state = "exited" =>
             /\ proc' = proc /\ store' = store /\ inflight' = inflight
             /\ log' = log]_vars

\* The process has shut down with handleHospitalVerified suspended between its
\* first and its second store write: the request is approved, the Hospital and
\* the User are not there.
C21_Witness ==
    /\ proc = [state |-> "exited", exitCode |-> 0]
    /\ \E e \in log : e.msg = "shuttingDown"
    /\ \E inv \in inflight : inv.h = "handleHospitalVerified" /\ inv.pc = 2
    /\ Len(store.RegistrationRequest) = 1
    /\ store.RegistrationRequest[1].status = "approved"
    /\ store.Hospital = <<>> /\ store.User = <<>>

\* The handlers that write to the store more than once.
MultiWriteHandlers == {"handleHospitalVerified", "handleHospitalRevoked"}

\* C22: a handler fault drops that one event and nothing retries it: the step
\* of the fault logs the error with the transaction, removes the invocation,
\* leaves the store and the timers as they are, and an invocation only ever
\* starts for a newly emitted event; a handler with a single store write has
\* written nothing by then, so the store is the one before the event.
C22_FaultDropsEvent ==
    /\ [][\A inv \in inflight :
             (Throws(inv) /\ inv \notin inflight') =>
                /\ \A other \in inflight' : other.id # inv.id
                /\ \E e \in log' : /\ e.level = "error" /\ e.msg = "errorProcessing"
                                   /\ e.tx = inv.ev.tx
                /\ store' = store /\ timers' = timers /\ emitted' = emitted
                /\ inv.h \notin MultiWriteHandlers => inv.wrote = {}]_vars
    /\ [][\A inv \in inflight' :
             (\A old \in inflight : old.id # inv.id) =>
                /\ Len(emitted') = Len(emitted) + 1
                /\ inv.id = Len(emitted')]_vars

\* RecordAdded was delivered, its handler threw at the store write and has
\* returned: the error is logged, no Record is there, and a second event has
\* been handled since.
C22_Witness ==
    /\ Len(emitted) = 2 /\ inflight = {}
    /\ emitted[1].ev.name = "RecordAdded" /\ emitted[1].delivered
    /\ \E e \in log : e.msg = "errorProcessing" /\ e.tx = emitted[1].ev.tx /\ e.at = 1
    /\ emitted[2].ev.name = "RegistrationRequested"
    /\ store.Record = <<>>
    /\ Len(store.RegistrationRequest) = 1

\* The k-th event found no request under verification.
WarnedAt(k) == \E e \in log : e.msg = "noVerifyingRequest" /\ e.at = k

\* C23: a HospitalVerified that finds no request under verification has
\* returned once it has warned, without waiting for the request, and is never
\* applied afterwards: a Hospital, a User or an approved request is there only
\* if some HospitalVerified was delivered that found the request verifying.
C23_EarlyVerificationDropped ==
    /\ \A k \in DOMAIN emitted :
          (emitted[k].ev.name = "HospitalVerified" /\ WarnedAt(k)) => Returned(k)
    /\ (\/ store.Hospital # <<>>
        \/ store.User # <<>>
        \/ \E i \in DOMAIN store.RegistrationRequest :
              store.RegistrationRequest[i].status = "approved")
       => \E k \in DOMAIN emitted :
             /\ emitted[k].ev.name = "HospitalVerified" /\ emitted[k].delivered
             /\ ~WarnedAt(k)

\* HospitalVerified(1) arrived first and warned; RegistrationRequested(1) came
\* after it and the request has since been taken up for verification: it stays
\* verifying, with no Hospital.
C23_Witness ==
    /\ Len(emitted) = 2 /\ inflight = {}
    /\ emitted[1].ev.name = "HospitalVerified" /\ WarnedAt(1)
    /\ emitted[2].ev.name = "RegistrationRequested"
    /\ Len(store.RegistrationRequest) = 1
    /\ store.RegistrationRequest[1].status = "verifying"
    /\ store.Hospital = <<>> /\ store.User = <<>>

\* The role name the table {1: Doctor, 7: LabTechnician} gives a code.
TableRole(code) ==
    IF code = 1 THEN "Doctor"
    ELSE IF code = 7 THEN "LabTechnician" ELSE "Unassigned Professional"

\* C24: handleRoleAssigned(user, role, hospitalId) returns without a fault
\* whatever the code, and the User with address lower(user), if there is one,
\* is as it was but with the role the table gives the code ('Unassigned
\* Professional' for a code not in it, 0 included), that hospitalId,
\* professionalStatus approved and isVerified true; no other User changes and
\* none is created.
C24_RoleAssigned ==
    [][\A inv \in inflight :
          Steps(inv, "handleRoleAssigned", 1) =>
             /\ \A other \in inflight' : other.id # inv.id
             /\ ~(\E e \in log' : e.level = "error" /\ e.at = Len(emitted))
             /\ Len(store'.User) = Len(store.User)
             /\ \A i \in DOMAIN store.User :
                   store'.User[i] =
                      IF store.User[i].address = toLowerCase(inv.ev.userAddress)
                      THEN [store.User[i] EXCEPT !.role = TableRole(inv.ev.role),
                                                 !.hospitalId = Some(inv.ev.hospitalId),
                                                 !.professionalStatus = "approved",
                                                 !.isVerified = TRUE]
                      ELSE store.User[i]]_vars

\* RoleAssigned(Alice, 0, 2) has returned: Alice, who was revoked and at no
\* hospital, is an approved 'Unassigned Professional' at hospital 2.
C24_Witness ==
    /\ Len(emitted) = 1 /\ inflight = {}
    /\ emitted[1].ev.name = "RoleAssigned" /\ emitted[1].ev.role = 0
    /\ store.User[1] = [UserWith(AliceLower, Some(2), "approved")
                           EXCEPT !.role = "Unassigned Professional"]
    /\ store.User[2] = UserWith(toLowerCase(Carol), Absent, "revoked")

\* C25: in every reachable store, every User has a role among Patient, Doctor,
\* LabTechnician, HospitalAdmin and Unassigned.
C25_RolesInEnumeration ==
    \A i \in DOMAIN store.User :
       store.User[i].role \in {"Patient", "Doctor", "LabTechnician", "HospitalAdmin",
                               "Unassigned"}

\* C26: handleRoleRevoked(user) leaves the User with address lower(user), if
\* there is one, as it was but with role Patient, professionalStatus revoked,
\* isVerified false and no hospitalId, so that the cascade filter of no hospital
\* matches it any more; no other User changes and none is created.
C26_RoleRevoked ==
    [][\A inv \in inflight :
          Steps(inv, "handleRoleRevoked", 1) =>
             /\ \A other \in inflight' : other.id # inv.id
             /\ Len(store'.User) = Len(store.User)
             /\ \A i \in DOMAIN store.User :
                   IF store.User[i].address = toLowerCase(inv.ev.userAddress)
                   THEN /\ store'.User[i] =
                              [store.User[i] EXCEPT !.role = "Patient",
                                                    !.professionalStatus = "revoked",
                                                    !.isVerified = FALSE,
                                                    !.hospitalId = Absent,
                                                    !.requestedHospitalId = Absent]
                        /\ \A ev \in HospitalRevokedEvents :
                              ~CascadeFilter(store'.User[i], ev)
                   ELSE store'.User[i] = store.User[i]]_vars

\* RoleRevoked(Alice) and then HospitalRevoked(1), her former hospital, have
\* returned: Alice is a revoked Patient at no hospital, the cascade has found
\* nothing to report, and Carol at hospital 2 is as she was.
C26_Witness ==
    /\ Len(emitted) = 2 /\ inflight = {}
    /\ emitted[1].ev.name = "RoleRevoked" /\ emitted[2].ev.name = "HospitalRevoked"
    /\ store.User[1] = [UserWith(AliceLower, Absent, "revoked") EXCEPT !.role = "Patient"]
    /\ store.User[2] = UserWith(toLowerCase(Carol), Some(2), "approved")
    /\ ~(\E e \in log : e.msg = "cascadingRevoke")

\* C27: handlePublicKeySaved(user) reads the key of the user on chain and
\* writes nothing while it does; it goes on to the write only with a key that
\* is not empty, and the write sets publicKey of the User lower(user) to the
\* key read and changes nothing else; with an empty key it returns, and when
\* the read or the write fails the User collection is as it was.
C27_KeyStoredIfNonEmpty ==
    [][\A inv \in inflight :
          /\ Steps(inv, "handlePublicKeySaved", 1) =>
                /\ store' = store
                /\ IF usersOnChain(chain, inv.ev.userAddress) = ""
                   THEN \A other \in inflight' : other.id # inv.id
                   ELSE \E next \in inflight' : next.id = inv.id /\ next.pc = 2
          /\ Steps(inv, "handlePublicKeySaved", 2) =>
                /\ usersOnChain(chain, inv.ev.userAddress) # ""
                /\ Len(store'.User) = Len(store.User)
                /\ \A i \in DOMAIN store.User :
                      store'.User[i] =
                         IF store.User[i].address = toLowerCase(inv.ev.userAddress)
                         THEN [store.User[i] EXCEPT
                                  !.publicKey = Some(usersOnChain(chain, inv.ev.userAddress))]
                         ELSE store.User[i]
          /\ (inv.h = "handlePublicKeySaved" /\ Throws(inv) /\ inv \notin inflight') =>
                store' = store]_vars

\* PublicKeySaved(Alice) has stored Alice's key 'pk'; PublicKeySaved(Carol),
\* whose key on chain is empty, has returned and Carol has no key.
C27_Witness ==
    /\ Len(emitted) = 2 /\ inflight = {}
    /\ emitted[1].ev.userAddress = Alice /\ emitted[2].ev.userAddress = Carol
    /\ ~(\E e \in log : e.level = "error")
    /\ store.User[1].publicKey = Some("pk")
    /\ store.User[2].publicKey = Absent

\* C28: the HTTP client is bound by startIndexer and by nothing else, and once
\* bound it stays bound whatever becomes of the subscription; a handler is only
\* ever in flight with the client bound, so the chain read of
\* handlePublicKeySaved does not fail for want of it.
C28_HttpClientStable ==
    /\ [][http => http']_vars
    /\ [][http' # http => proc.state = "starting"]_vars
    /\ [](\A inv \in inflight :
             /\ http
             /\ (inv.h = "handlePublicKeySaved" /\ inv.pc = 1) => ~Throws(inv))

\* connectWebSocket failed, was retried and subscribed; the transport has since
\* dropped, and handlePublicKeySaved, delivered just before, is about to read
\* the chain: the HTTP client is bound.
C28_Witness ==
    /\ \E inv \in inflight : inv.h = "handlePublicKeySaved" /\ inv.pc = 1
    /\ \A i \in Subscriptions : wss[i].link = "down"
    /\ Logged("wsInitFailed") /\ Logged("wsProviderError")
    /\ http

\* C29: once a Record with recordId r is in the store, no event the indexer
\* processes changes any of its fields or removes it.
C29_RecordImmutable ==
    [][\A i \in DOMAIN store.Record :
          /\ i \in DOMAIN store'.Record
          /\ store'.Record[i] = store.Record[i]]_vars

\* C30: a RegistrationRequested or ProfessionalAccessRequested delivered again
\* does not reset a status that has moved on from its initial value: a
\* RegistrationRequest not in pending_hospital and an AccessRequest not in
\* pending keep their status through every step of these two handlers.
C30_DuplicateKeepsStatus ==
    [][\A inv \in inflight :
          (inv.h \in {"handleRegistrationRequested", "handleProfessionalAccessRequested"}
           /\ inv \notin inflight')
          => /\ \A i \in DOMAIN store.RegistrationRequest :
                   store.RegistrationRequest[i].status # "pending_hospital" =>
                      store'.RegistrationRequest[i].status =
                         store.RegistrationRequest[i].status
             /\ \A i \in DOMAIN store.AccessRequest :
                   store.AccessRequest[i].status # "pending" =>
                      store'.AccessRequest[i].status = store.AccessRequest[i].status]_vars

\* C31: fetchFromIPFS contacts the gateways in the order of the list, each at
\* most once; it goes on after a response that is not ok and after a fetch that
\* throws alike; it returns the response of the first gateway that answers ok,
\* having contacted none after it; and it throws only when all have failed.
C31_FirstOkGateway ==
    /\ Len(ipfs.contacted) <= Len(gateways)
    /\ \A k \in DOMAIN ipfs.contacted : ipfs.contacted[k] = gateways[k]
    /\ ipfs.state = "fetching" =>
          /\ ipfs.next = Len(ipfs.contacted) + 1
          /\ \A k \in DOMAIN ipfs.contacted : ipfs.outcomes[k] # "ok"
    /\ ipfs.state = "returned" =>
          /\ ipfs.from = Len(ipfs.contacted)
          /\ ipfs.outcomes[ipfs.from] = "ok"
          /\ \A k \in 1..(ipfs.from - 1) : ipfs.outcomes[k] # "ok"
    /\ ipfs.state = "thrown" =>
          /\ Len(ipfs.contacted) = Len(gateways)
          /\ \A k \in DOMAIN gateways : ipfs.outcomes[k] # "ok"

\* The first gateway answered not ok, the second threw, the third answered ok:
\* its response is returned, and the fourth, which would have answered ok too,
\* was not contacted.
C31_Witness ==
    /\ ipfs.state = "returned" /\ ipfs.from = 3
    /\ ipfs.outcomes[1] = "notOk" /\ ipfs.outcomes[2] = "throws"
    /\ ipfs.outcomes[4] = "ok"
    /\ ipfs.contacted = SubSeq(gateways, 1, 3)

\* C32: handleAccessGranted resolves the block of the event before it touches
\* the store. When the block is null it returns with a warning that names the
\* transaction and the store is as it was; otherwise it goes on to the upsert,
\* and the grant the upsert leaves for the pair has createdAt equal to the
\* block's timestamp in seconds times 1000.
C32_CreatedAtFromBlock ==
    [][\A inv \in inflight :
          /\ Steps(inv, "handleAccessGranted", 1) =>
                /\ store' = store
                /\ IF chain.blocks[inv.ev.block] = Absent
                   THEN /\ \A other \in inflight' : other.id # inv.id
                        /\ \E e \in log' : /\ e.level = "warn" /\ e.tx = inv.ev.tx
                                           /\ e.at = Len(emitted)
                   ELSE \E next \in inflight' : next.id = inv.id /\ next.pc = 2
          /\ Steps(inv, "handleAccessGranted", 2) =>
                /\ chain.blocks[inv.ev.block] # Absent
                /\ \E i \in DOMAIN store'.AccessGrant :
                      /\ store'.AccessGrant[i].recordId = inv.ev.recordId
                      /\ store'.AccessGrant[i].professionalAddress =
                            toLowerCase(inv.ev.grantee)
                      /\ \A t \in chain.blocks[inv.ev.block] :
                            store'.AccessGrant[i].createdAt = t * 1000]_vars

\* AccessGranted in block 3, which cannot be resolved, has warned and written
\* nothing; AccessGranted in block 1, of timestamp 100, has then written the
\* grant with createdAt 100000.
C32_Witness ==
    /\ Len(emitted) = 2 /\ inflight = {}
    /\ emitted[1].ev.name = "AccessGranted" /\ emitted[1].ev.block = 3
    /\ \E e \in log : e.msg = "noBlock" /\ e.at = 1
    /\ emitted[2].ev.name = "AccessGranted" /\ emitted[2].ev.block = 1
    /\ Len(store.AccessGrant) = 1
    /\ store.AccessGrant[1].createdAt = 100000

\* C33: when AccessGranted(r, owner, g) is delivered before
\* AccessRevoked(owner, g, [.., r, ..]) and nothing else is about the pair, then
\* once both handlers have returned, however they interleaved, no AccessGrant
\* for (r, g) remains.
C33_RevokeAfterGrantWins ==
    \A i, j \in DOMAIN emitted :
        (/\ i < j
         /\ emitted[i].ev.name = "AccessGranted" /\ emitted[j].ev.name = "AccessRevoked"
         /\ emitted[i].delivered /\ emitted[j].delivered
         /\ PairsOf(emitted[i].ev) \subseteq PairsOf(emitted[j].ev)
         /\ \A k \in DOMAIN emitted : k > j =>
               PairsOf(emitted[k].ev) \cap PairsOf(emitted[i].ev) = {}
         /\ Returned(i) /\ Returned(j))
        => \A pair \in PairsOf(emitted[i].ev) : GrantsFor(store, pair) = {}

\* The request of hospital h is under verification.
Verifying(st, h) ==
    \E i \in DOMAIN st.RegistrationRequest :
       /\ st.RegistrationRequest[i].requestId = h
       /\ st.RegistrationRequest[i].status = "verifying"

\* The invocations of handleHospitalVerified whose status update matched.
PastApproval == {inv \in inflight : inv.h = "handleHospitalVerified" /\ inv.pc >= 2}

\* C34: of the HospitalVerified invocations in flight for one verifying request
\* the status update verifying -> approved succeeds for one only. The step
\* that succeeds leaves the request no longer verifying, so that every other
\* invocation then warns, returns and writes nothing; at most one invocation is
\* ever past the status update, and it finds no Hospital and no User written by
\* another.
C34_OneVerificationWins ==
    /\ [][\A inv \in inflight :
             Steps(inv, "handleHospitalVerified", 1) =>
                IF Verifying(store, inv.ev.hospitalId)
                THEN /\ ~Verifying(store', inv.ev.hospitalId)
                     /\ \E next \in inflight' : next.id = inv.id /\ next.pc = 2
                ELSE /\ store' = store
                     /\ \A other \in inflight' : other.id # inv.id
                     /\ \E e \in log' : e.level = "warn" /\ e.msg = "noVerifyingRequest"]_vars
    /\ [](/\ Cardinality(PastApproval) <= 1
          /\ \A inv \in PastApproval :
                /\ inv.pc = 2 => store.Hospital = <<>>
                /\ store.User = <<>>)

\* Two HospitalVerified(1) were in flight for the verifying request: one has
\* approved it and is about to write the Hospital, the other has warned and
\* returned.
C34_Witness ==
    /\ Len(emitted) = 2
    /\ emitted[1].ev.name = "HospitalVerified" /\ emitted[2].ev.name = "HospitalVerified"
    /\ Cardinality(inflight) = 1
    /\ \E inv \in PastApproval : inv.pc = 2
    /\ \E e \in log : e.msg = "noVerifyingRequest"
    /\ store.RegistrationRequest[1].status = "approved"
    /\ store.Hospital = <<>>

\* C35: in every state with no handler in flight, a RegistrationRequest with
\* status approved has its Hospital, verified and active, and the HospitalAdmin
\* User of that hospital.
C35_VerificationAllOrNothing ==
    inflight = {} =>
       \A i \in DOMAIN store.RegistrationRequest :
          store.RegistrationRequest[i].status = "approved" =>
             LET h == store.RegistrationRequest[i].requestId IN
             /\ \E j \in DOMAIN store.Hospital :
                   /\ store.Hospital[j].hospitalId = h
                   /\ store.Hospital[j].isVerified /\ store.Hospital[j].status = "active"
             /\ \E j \in DOMAIN store.User :
                   /\ store.User[j].hospitalId = Some(h)
                   /\ store.User[j].role = "HospitalAdmin"

\* C36: when HospitalRevoked(h) was delivered after every RoleAssigned and
\* HospitalVerified for h, then once all handlers have returned, however they
\* interleaved, no User with hospitalId = h is verified or approved.
C36_RevocationLast ==
    \A j \in DOMAIN emitted :
        (/\ emitted[j].ev.name = "HospitalRevoked" /\ emitted[j].delivered
         /\ \A k \in DOMAIN emitted :
               (k > j /\ emitted[k].ev.name \in {"RoleAssigned", "HospitalVerified"})
                  => emitted[k].ev.hospitalId # emitted[j].ev.hospitalId
         /\ inflight = {})
        => \A i \in DOMAIN store.User :
              store.User[i].hospitalId = Some(emitted[j].ev.hospitalId) =>
                 /\ ~store.User[i].isVerified
                 /\ store.User[i].professionalStatus # "approved"

\* The listeners of event name on subscription i.
ListenersFor(i, name) == {l \in wss[i].listeners : l.event = name}

\* C37: once a connection attempt has succeeded, after however many failed
\* ones, there is exactly one subscription; each of the ten catalog events has
\* exactly one listener on it, bound to the handler of that event; and an event
\* the chain emits and delivers starts exactly one invocation, of that handler.
C37_OneListenerPerEvent ==
    /\ [](IF Logged("listenersAttached")
          THEN /\ Cardinality(Subscriptions) = 1
               /\ \A i \in Subscriptions :
                     /\ Cardinality(wss[i].listeners) = 10
                     /\ \A k \in DOMAIN ListenerOrder :
                           /\ Cardinality(ListenersFor(i, ListenerOrder[k])) = 1
                           /\ \A l \in ListenersFor(i, ListenerOrder[k]) :
                                 l.handler = "handle" \o ListenerOrder[k]
          ELSE Subscriptions = {})
    /\ [][Len(emitted') > Len(emitted) =>
            LET n == Len(emitted')
            IN IF emitted'[n].delivered
               THEN /\ Cardinality(inflight' \ inflight) = 1
                    /\ \A inv \in inflight' \ inflight :
                          /\ inv.id = n /\ inv.ev = emitted'[n].ev
                          /\ inv.h = "handle" \o inv.ev.name
               ELSE inflight' = inflight]_vars

\* Three connection attempts failed, one of them while attaching listeners, the
\* next succeeded, and the event emitted since started one invocation.
C37_Witness ==
    /\ Logged("wsInitFailed")
    /\ Len(wss) >= 3
    /\ Cardinality(Subscriptions) = 1
    /\ Len(emitted) = 1 /\ emitted[1].delivered
    /\ Cardinality(inflight) = 1

\* The k-th event's handler threw.
FaultedAt(k) == \E e \in log : e.msg = "errorProcessing" /\ e.at = k

\* C38: the cascade of HospitalRevoked(h) runs whenever the Hospital update did
\* not throw, whether or not a Hospital h in status revoking was found: once a
\* delivery has returned without a fault no User of h is verified or approved,
\* also when an earlier delivery faulted in the cascade and left the Hospital
\* revoked.
C38_CascadeNotGated ==
    /\ [](\A k \in DOMAIN emitted :
            (/\ emitted[k].ev.name = "HospitalRevoked" /\ emitted[k].delivered
             /\ Returned(k) /\ ~FaultedAt(k))
            => \A i \in DOMAIN store.User :
                  store.User[i].hospitalId = Some(emitted[k].ev.hospitalId) =>
                     /\ store.User[i].professionalStatus = "revoked"
                     /\ ~store.User[i].isVerified)
    /\ [][\A inv \in inflight :
             (/\ inv.h = "handleHospitalRevoked" /\ inv.pc = 1
              /\ inv \notin inflight' /\ ~Throws(inv))
             => \E next \in inflight' : next.id = inv.id /\ next.pc = 2]_vars

\* The first delivery revoked the Hospital and faulted in the cascade; the
\* second found the Hospital revoked and revoked its professionals.
C38_Witness ==
    /\ Len(emitted) = 2 /\ inflight = {}
    /\ FaultedAt(1) /\ ~FaultedAt(2)
    /\ \E e \in log : e.msg = "cascadingRevoke" /\ e.n >= 1
    /\ \E i \in DOMAIN store.Hospital : store.Hospital[i].status = "revoked"
    /\ faultyWrote # {}

\* The events whose handlers update the User of an address and never create it.
TargetedNames == {"RoleAssigned", "RoleRevoked", "PublicKeySaved"}

NoUserOf(st, address) ==
    \A i \in DOMAIN st.User : st.User[i].address # toLowerCase(address)

\* C39: RoleAssigned, RoleRevoked and PublicKeySaved for an address with no User
\* leave the store as it is and return; a User created for that address
\* afterwards is as its creating handler writes it, with nothing of the earlier
\* events in it.
C39_NoUserNoEffect ==
    /\ [][\A inv \in inflight :
             (/\ inv.ev.name \in TargetedNames /\ inv \notin inflight'
              /\ ~Throws(inv) /\ NoUserOf(store, inv.ev.userAddress))
             => /\ store' = store
                /\ timers' = timers
                /\ \A next \in inflight' :
                      next.id = inv.id => inv.h = "handlePublicKeySaved" /\ inv.pc = 1]_vars
    /\ [](inflight = {} =>
            \A k \in DOMAIN emitted :
               (\A j \in 1..(k - 1) : emitted[j].ev.name \in TargetedNames)
               => IF emitted[k].ev.name \in TargetedNames
                  THEN k = Len(emitted) => store.User = <<>>
                  ELSE k = Len(emitted) =>
                          \A i \in DOMAIN store.User :
                             /\ store.User[i].role = "HospitalAdmin"
                             /\ store.User[i].publicKey = Absent
                             /\ store.User[i].hospitalId = Some(emitted[k].ev.hospitalId)
                             /\ store.User[i].professionalStatus = "approved")

\* RoleAssigned(Alice, Doctor) found no User and returned; HospitalVerified then
\* registered Alice as the admin of the hospital.
C39_Witness ==
    /\ Len(emitted) = 2 /\ inflight = {}
    /\ emitted[1].ev.name = "RoleAssigned" /\ emitted[1].ev.role = 1
    /\ emitted[1].delivered
    /\ emitted[2].ev.name = "HospitalVerified"
    /\ Len(store.User) = 1
    /\ store.User[1].address = AliceLower /\ store.User[1].role = "HospitalAdmin"

\* C40: a DISCONNECTED event leaves nothing of the session it ends: account,
\* contract, signer, keyPair, idToken and userProfile are cleared, the session is
\* not locked, so that the password modal is not shown, and no encrypted key is
\* kept for decryption.
C40_DisconnectClearsSession ==
    [][(session.connected /\ ~session'.connected) =>
          /\ session'.account = Absent /\ session'.contract = Absent
          /\ session'.signer = Absent /\ session'.keyPair = Absent
          /\ session'.idToken = Absent /\ session'.userProfile = Absent
          /\ ~session'.isSessionLocked /\ ~PasswordModalShown(session')
          /\ session'.encryptedKeyToDecrypt = Absent]_vars
====
